---- MODULE Spec2Model ----
(***************************************************************************)
(* Model of the chinese-writing-app: the DrawingCanvas undo/redo history,  *)
(* the PracticeSession tracker, the ResultsExporter bucketing and the      *)
(* ChineseWritingApp controller that drives the canvas.                    *)
(*                                                                         *)
(* Canvas content is the number of path objects on the fabric canvas; a    *)
(* snapshot is the JSON text of that content.  Times are positive integers *)
(* (Date.now() is never 0), so 0 plays the part of null, as it does for    *)
(* the truthiness tests of the source.                                     *)
(***************************************************************************)
EXTENDS Integers, Sequences, FiniteSets, TLC

\* ------------------------------------------------------------------ bounds
\* most paths drawn on the canvas before the model stops drawing
MaxPaths == 60
\* longest history the small drawing model lets a push produce
MaxDrawHistory == 5
\* most paths on the canvas in the small drawing model
MaxDrawPaths == 2

\* most setCharacterStatus calls made on the items in one run
MaxCalls == 2
\* most time-tracker intervals the model lets a session schedule
MaxTimers == 1
\* most time-tracker intervals scheduled at once in the timer model
MaxLiveTimers == 2
\* the last instant of the clock model, in ms (the clock starts at 1)
MaxNow == 3
\* most stroke summaries logged for one item
MaxStrokes == 1
\* longest history the app model lets a push produce
MaxAppHistory == 3
\* most paths on the canvas in the app model
MaxAppPaths == 1

\* the last instant of the recommendation model, in ms (the clock starts at 1)
MaxAdviceNow == 150001

\* most saveSession calls the store model lets the statistics count
MaxSaves == 2
\* the last instant of the store model, in ms (the clock starts at 1)
MaxStoreNow == 3

\* longest chars parameter, in symbols, the parsing model is given
MaxTextLen == 4

\* most attempts a record of the export model starts with
MaxExportAttempts == 2
\* the last instant of the export model, in ms (the clock starts at 1)
MaxExportNow == 86400001

\* ------------------------------------------------------- program constants
\* saveState: if (this.history.length > 50)
HistoryCap == 50
\* saveSession: if (data.sessions.length > 50)
SessionCap == 50

\* initializeStorage: settings.brushSize
DefaultBrushSize == 8

\* getSessionStats / generateResults: duration / 60000
MsPerMinute == 60000
\* generateCSV: timeSpent / 1000
MsPerSecond == 1000
\* toISOString().split('T')[0]: the calendar day of an instant
MsPerDay == 86400000

\* --------------------------------------------------------------- variables
VARIABLES
  canvas,        \* DrawingCanvas.canvas content: number of path objects
  history,       \* DrawingCanvas.history: sequence of snapshots
  historyIndex,  \* DrawingCanvas.historyIndex (0-based cursor)
  lastOp,        \* the canvas operation that ran last
  cutFuture,     \* TRUE when the last saveState discarded entries after the cursor
  preUndo,       \* the canvas state before the last undo(), while nothing ran since
  pushLog,       \* every snapshot pushed so far, kept while only pushes have run
  live,          \* the object under test: "canvas", "session" or "app" (with its canvas)
  now,           \* Date.now()
  lastRet,       \* what the last operation returned: "true", "false" or "none"
  calls,         \* per item, how many setCharacterStatus calls were made on it
  activeTime,    \* per item, for how long it has been current with the clock running
  characters,    \* PracticeSession.characters
  autoProgress,  \* PracticeSession.options.autoProgress
  results,       \* PracticeSession.results: item -> practice record
  currentIndex,  \* PracticeSession.currentIndex
  isActive,      \* PracticeSession.isActive
  characterStartTime, \* PracticeSession.characterStartTime (0 is null)
  liveTimers,    \* how many setInterval time trackers of the session are scheduled
  handleLive,    \* TRUE when the interval this.timeTracker names is still scheduled
  completed,     \* TRUE once completeSession() has run
  app_characters,   \* ChineseWritingApp.characters
  app_currentIndex, \* ChineseWritingApp.currentIndex
  app_results,      \* ChineseWritingApp.session.results: item -> record
  search,           \* window.location.search: the chars and characters parameters
  available,     \* PracticeStorage.available
  sessions,      \* the stored data.sessions: sequence of saved session entries
  totalSessions, \* the stored data.statistics.totalSessions
  settings,      \* the stored data.settings.brushSize (0: no such setting)
  stored,        \* TRUE while localStorage holds an item under the storage key
  session_date,  \* session.date of the exported session (0: not set)
  session_duration, \* session.duration of the exported session, in ms
  exported       \* what the last export call returned ("none": no call yet)

canvasVars == <<canvas, history, historyIndex, cutFuture, preUndo, pushLog>>
ghostVars == <<live, now, lastOp, lastRet, calls, activeTime>>
sessionVars == <<characters, autoProgress, results, currentIndex, isActive,
                 characterStartTime, liveTimers, handleLive, completed>>
appVars == <<app_characters, app_currentIndex, app_results, search>>
storageVars == <<available, sessions, totalSessions, settings, stored>>
exportVars == <<session_date, session_duration, exported>>
vars == <<canvasVars, ghostVars, sessionVars, appVars, storageVars, exportVars>>

\* ------------------------------------------------------------ DrawingCanvas
\* a fresh fabric canvas holds no object
BlankCanvas == 0

\* absent ghost value
NoState == [history |-> <<>>, historyIndex |-> -1, canvas |-> -1]

\* JSON.stringify(this.canvas.toJSON()): the text of the content
ToJSON(content) == <<"objects", content>>

\* canvas.loadFromJSON(state): the content the text describes
LoadFromJSON(state) == state[2]

\* the last n entries of a sequence
LastN(s, n) == IF Len(s) <= n THEN s ELSE SubSeq(s, Len(s) - n + 1, Len(s))

\* saveState() that drops the oldest entry but leaves the cursor where it was
SaveStateNoShift(h, i, content) ==
  LET pushed == Append(SubSeq(h, 1, i + 1), ToJSON(content))
      idx == Len(pushed) - 1
  IN IF Len(pushed) > HistoryCap
       THEN [history |-> Tail(pushed), historyIndex |-> idx]
       ELSE [history |-> pushed, historyIndex |-> idx]

\* saveState() that appends without dropping the entries after the cursor
SaveStateNoTruncate(h, i, content) ==
  LET pushed == Append(h, ToJSON(content))
      idx == Len(pushed) - 1
  IN IF Len(pushed) > HistoryCap
       THEN [history |-> Tail(pushed), historyIndex |-> idx - 1]
       ELSE [history |-> pushed, historyIndex |-> idx]

\* saveState(): truncate after the cursor, append, cap at 50 by dropping the oldest
SaveState(h, i, content) ==
  LET state == ToJSON(content)
      kept == SubSeq(h, 1, i + 1)
      pushed == Append(kept, state)
      idx == Len(pushed) - 1
  IN IF Len(pushed) > HistoryCap
       THEN [history |-> Tail(pushed), historyIndex |-> idx - 1]
       ELSE [history |-> pushed, historyIndex |-> idx]

\* a snapshot text that cannot be read back
Unreadable == <<"corrupt">>

\* whether canvas.loadFromJSON can parse the text
Readable(state) == Len(state) = 2 /\ state[1] = "objects"

\* loadState(state) without its try / catch: the parse error escapes
LoadStateNoCatch(content, state) ==
  IF state = <<>> THEN [content |-> content, ret |-> "none"]
  ELSE IF ~Readable(state) THEN [content |-> content, ret |-> "throws"]
  ELSE [content |-> LoadFromJSON(state), ret |-> "none"]

\* loadState(state): a falsy state is ignored; a text that cannot be parsed makes
\* loadFromJSON throw before it touches the canvas, and the catch logs the error
\* (ret "caught"); otherwise the canvas takes the content of the text
LoadState(content, state) ==
  IF state = <<>> THEN [content |-> content, ret |-> "none"]
  ELSE IF ~Readable(state) THEN [content |-> content, ret |-> "caught"]
  ELSE [content |-> LoadFromJSON(state), ret |-> "none"]

\* undo() that steps back without looking at the cursor
UndoIndexNoGuard(h, i) == i - 1

\* undo(): the cursor after the call
UndoIndex(h, i) == IF i > 0 THEN i - 1 ELSE i

\* redo() that jumps to the newest entry
RedoIndexToTail(h, i) == IF i < Len(h) - 1 THEN Len(h) - 1 ELSE i

\* redo(): the cursor after the call
RedoIndex(h, i) == IF i < Len(h) - 1 THEN i + 1 ELSE i

\* constructor + init(): empty history, cursor -1, then the initial saveState()
CanvasInit ==
  LET r == SaveState(<<>>, -1, BlankCanvas)
  IN /\ canvas = BlankCanvas
     /\ history = r.history
     /\ historyIndex = r.historyIndex
     /\ cutFuture = FALSE
     /\ preUndo = NoState
     /\ pushLog = <<ToJSON(BlankCanvas)>>

\* no canvas has been constructed
CanvasIdle ==
  /\ canvas = BlankCanvas
  /\ history = <<>>
  /\ historyIndex = -1
  /\ cutFuture = FALSE
  /\ preUndo = NoState
  /\ pushLog = <<>>

\* init() that does not save the initial state
canvas_initNoSave ==
  /\ live = "canvas"
  /\ lastOp = "constructed"
  /\ lastOp' = "init"
  /\ lastRet' = "none"
  /\ UNCHANGED <<canvasVars, live, now, calls, activeTime, sessionVars, appVars,
                 storageVars, exportVars>>

\* init() of the canvas, called by the constructor on the empty history with
\* cursor -1: the blank Fabric canvas, then saveState()
canvas_init ==
  /\ live = "canvas"
  /\ lastOp = "constructed"
  /\ LET r == SaveState(history, historyIndex, BlankCanvas)
     IN /\ canvas' = BlankCanvas
        /\ history' = r.history
        /\ historyIndex' = r.historyIndex
        /\ cutFuture' = FALSE
        /\ preUndo' = NoState
        /\ pushLog' = <<ToJSON(BlankCanvas)>>
  /\ lastOp' = "init"
  /\ lastRet' = "none"
  /\ UNCHANGED <<live, now, calls, activeTime, sessionVars, appVars, storageVars, exportVars>>

\* a push that starts the history over with the new content
PushResets(content) ==
  /\ canvas' = content
  /\ history' = <<ToJSON(content)>>
  /\ historyIndex' = 0
  /\ cutFuture' = (historyIndex < Len(history) - 1)
  /\ preUndo' = NoState
  /\ pushLog' = <<>>

\* the canvas part of a push: the content is on the canvas and saveState() runs
Push(content) ==
  LET r == SaveState(history, historyIndex, content)
  IN /\ canvas' = content
     /\ history' = r.history
     /\ historyIndex' = r.historyIndex
     /\ cutFuture' = (historyIndex < Len(history) - 1)
     /\ preUndo' = NoState
     /\ pushLog' = IF pushLog = <<>> THEN <<>> ELSE Append(pushLog, ToJSON(content))

\* path:created -> onPathCreated(): the drawn path is on the canvas, saveState()
onPathCreated(maxPaths, maxHistory) ==
  /\ live \in {"canvas", "app"}
  /\ canvas < maxPaths
  /\ historyIndex + 1 < maxHistory
  /\ Push(canvas + 1)
  /\ lastOp' = "stroke"
  /\ lastRet' = "none"
  /\ UNCHANGED <<live, now, calls, activeTime, sessionVars, appVars, storageVars, exportVars>>

\* clear(): canvas.clear(), then saveState()
clear(maxHistory) ==
  /\ live \in {"canvas", "app"}
  /\ historyIndex + 1 < maxHistory
  /\ Push(BlankCanvas)
  /\ lastOp' = "clear"
  /\ lastRet' = "none"
  /\ UNCHANGED <<live, now, calls, activeTime, sessionVars, appVars, storageVars, exportVars>>

\* undo(): nothing at cursor 0, otherwise step back and load that snapshot
undo ==
  /\ live \in {"canvas", "app"}
  /\ historyIndex' = UndoIndex(history, historyIndex)
  /\ IF historyIndex > 0
       THEN /\ LET r == LoadState(canvas, history[historyIndex' + 1])
               IN canvas' = r.content /\ lastRet' = r.ret
            /\ lastOp' = "undo"
       ELSE /\ canvas' = canvas
            /\ lastRet' = "none"
            /\ lastOp' = "undoNoop"
  /\ preUndo' = [history |-> history, historyIndex |-> historyIndex, canvas |-> canvas]
  /\ cutFuture' = FALSE
  /\ pushLog' = <<>>
  /\ UNCHANGED <<history, live, now, calls, activeTime, sessionVars, appVars, storageVars, exportVars>>

\* redo(): nothing at the last index, otherwise step forward and load that snapshot
redo ==
  /\ live \in {"canvas", "app"}
  /\ historyIndex' = RedoIndex(history, historyIndex)
  /\ IF historyIndex < Len(history) - 1
       THEN /\ LET r == LoadState(canvas, history[historyIndex' + 1])
               IN canvas' = r.content /\ lastRet' = r.ret
            /\ lastOp' = "redo"
       ELSE /\ canvas' = canvas
            /\ lastRet' = "none"
            /\ lastOp' = "redoNoop"
  /\ preUndo' = IF lastOp = "undo" THEN preUndo ELSE NoState
  /\ cutFuture' = FALSE
  /\ pushLog' = <<>>
  /\ UNCHANGED <<history, live, now, calls, activeTime, sessionVars, appVars, storageVars, exportVars>>

\* fault: the snapshot at index i of the history has become unreadable
corruptSnapshot(i) ==
  /\ live = "canvas"
  /\ i \in 1..Len(history)
  /\ history' = [history EXCEPT ![i] = Unreadable]
  /\ preUndo' = NoState
  /\ cutFuture' = FALSE
  /\ pushLog' = <<>>
  /\ lastOp' = "corruptSnapshot"
  /\ lastRet' = "none"
  /\ UNCHANGED <<canvas, historyIndex, live, now, calls, activeTime, sessionVars, appVars,
                 storageVars, exportVars>>

\* ---------------------------------------------------------- PracticeSession
\* Math.floor(n / d) in the place of Math.round
RoundDown(n, d) == n \div d

\* Math.round(n / d) for n >= 0 and d > 0: the nearest integer, halves upward
Round(n, d) == (2 * n + d) \div (2 * d)

\* the status values of a practice record
Statuses == {"mastered", "needs-work", "not-practiced"}

\* setCharacterStatus(character, status): feedback defaults to null
NoNote == ""

\* the item lists a session or the app is started with; an item may repeat
ItemLists == {<<"A", "B", "C">>, <<"A", "A">>}

\* an identifier that is no item of any list
Stranger == "Z"

\* every item of the model
AllItems == {"A", "B", "C"}

\* the calls made so far on all items
TotalCalls == calls["A"] + calls["B"] + calls["C"]

\* the items of a list
ItemsOf(chars) == {chars[i] : i \in 1..Len(chars)}

\* init(): the record every item starts with (endTime is written but never read)
NewRecord ==
  [status |-> "not-practiced", attempts |-> 0, timeSpent |-> 0, startTime |-> 0,
   strokes |-> <<>>, feedback |-> <<>>]

\* the session as one value
Sess ==
  [characters |-> characters, autoProgress |-> autoProgress, results |-> results,
   currentIndex |-> currentIndex, isActive |-> isActive,
   characterStartTime |-> characterStartTime, liveTimers |-> liveTimers,
   handleLive |-> handleLive, completed |-> completed]

\* the session takes the value s
SetSess(s) ==
  /\ characters' = s.characters
  /\ autoProgress' = s.autoProgress
  /\ results' = s.results
  /\ currentIndex' = s.currentIndex
  /\ isActive' = s.isActive
  /\ characterStartTime' = s.characterStartTime
  /\ liveTimers' = s.liveTimers
  /\ handleLive' = s.handleLive
  /\ completed' = s.completed

\* the session has the value s
SessIs(s) ==
  /\ characters = s.characters
  /\ autoProgress = s.autoProgress
  /\ results = s.results
  /\ currentIndex = s.currentIndex
  /\ isActive = s.isActive
  /\ characterStartTime = s.characterStartTime
  /\ liveTimers = s.liveTimers
  /\ handleLive = s.handleLive
  /\ completed = s.completed

\* setupTimeTracking(): a new interval is scheduled and this.timeTracker names it
SetupTimeTracking(s) ==
  [s EXCEPT !.liveTimers = @ + 1, !.handleLive = TRUE]

\* if (this.timeTracker) clearInterval(this.timeTracker)
ClearTracker(s) ==
  IF s.handleLive THEN [s EXCEPT !.liveTimers = @ - 1, !.handleLive = FALSE] ELSE s

\* constructor + init(): records for every item, index 0, active, tracker scheduled
NewSession(chars, auto) ==
  SetupTimeTracking(
    [characters |-> chars, autoProgress |-> auto,
     results |-> [c \in ItemsOf(chars) |-> NewRecord],
     currentIndex |-> 0, isActive |-> TRUE, characterStartTime |-> 0,
     liveTimers |-> 0, handleLive |-> FALSE, completed |-> FALSE])

\* endCharacterPractice(): with the clock running, timeSpent is set and the clock stops
EndCharacterPractice(s, t) ==
  IF s.characterStartTime # 0
    THEN LET char == s.characters[s.currentIndex + 1]
         IN IF char \in DOMAIN s.results
              THEN LET start == IF s.results[char].startTime # 0
                                  THEN s.results[char].startTime
                                  ELSE s.characterStartTime
                   IN [s EXCEPT !.results[char].timeSpent = t - start,
                                !.characterStartTime = 0]
              ELSE [s EXCEPT !.characterStartTime = 0]
    ELSE s

\* startCharacterPractice(index) whose upper bound test is off by one
StartCharacterPracticeOffByOne(s, index, t) ==
  IF index < 0 \/ index > Len(s.characters)
    THEN [s |-> s, ret |-> "false"]
    ELSE LET e == EndCharacterPractice(s, t)
             set == [e EXCEPT !.currentIndex = index, !.characterStartTime = t]
         IN [s |-> IF index < Len(s.characters)
                     THEN [set EXCEPT !.results[s.characters[index + 1]].startTime =
                                         IF @ = 0 THEN t ELSE @]
                     ELSE set,
             ret |-> "true"]

\* startCharacterPractice(index) that ends the previous item before the range check
StartCharacterPracticeEndsFirst(s, index, t) ==
  LET e == EndCharacterPractice(s, t)
  IN IF index < 0 \/ index >= Len(s.characters)
       THEN [s |-> e, ret |-> "false"]
       ELSE LET char == s.characters[index + 1]
            IN [s |-> [e EXCEPT !.currentIndex = index,
                                !.characterStartTime = t,
                                !.results[char].startTime = IF @ = 0 THEN t ELSE @],
                ret |-> "true"]

\* startCharacterPractice(index) that stamps startTime on every visit
StartCharacterPracticeRestamps(s, index, t) ==
  IF index < 0 \/ index >= Len(s.characters)
    THEN [s |-> s, ret |-> "false"]
    ELSE LET e == EndCharacterPractice(s, t)
             char == s.characters[index + 1]
         IN [s |-> [e EXCEPT !.currentIndex = index,
                             !.characterStartTime = t,
                             !.results[char].startTime = t],
             ret |-> "true"]

\* startCharacterPractice(index): range check, end the previous item, select, stamp
StartCharacterPractice(s, index, t) ==
  IF index < 0 \/ index >= Len(s.characters)
    THEN [s |-> s, ret |-> "false"]
    ELSE LET e == EndCharacterPractice(s, t)
             char == s.characters[index + 1]
             set == [e EXCEPT !.currentIndex = index, !.characterStartTime = t]
         IN [s |-> IF char \in DOMAIN set.results
                     THEN [set EXCEPT !.results[char].startTime = IF @ = 0 THEN t ELSE @]
                     ELSE set,
             ret |-> "true"]

\* completeSession(): inactive, clock stopped, tracker cleared
CompleteSession(s, t) ==
  [ClearTracker(EndCharacterPractice([s EXCEPT !.isActive = FALSE], t))
     EXCEPT !.completed = TRUE]

\* nextCharacter() whose bound test is off by one
NextCharacterOffByOne(s, t) ==
  IF s.currentIndex < Len(s.characters)
    THEN StartCharacterPractice(s, s.currentIndex + 1, t)
    ELSE [s |-> CompleteSession(s, t), ret |-> "false"]

\* nextCharacter(): select the next item, or complete the session at the last one
NextCharacter(s, t) ==
  IF s.currentIndex < Len(s.characters) - 1
    THEN StartCharacterPractice(s, s.currentIndex + 1, t)
    ELSE [s |-> CompleteSession(s, t), ret |-> "false"]

\* previousCharacter(): select the previous item, or nothing at index 0
PreviousCharacter(s, t) ==
  IF s.currentIndex > 0
    THEN StartCharacterPractice(s, s.currentIndex - 1, t)
    ELSE [s |-> s, ret |-> "false"]

\* setCharacterStatus() that counts an attempt only when the status changes
SetCharacterStatusOnChange(s, character, status, note, t) ==
  IF character \notin DOMAIN s.results
    THEN [s |-> s, ret |-> "false"]
    ELSE LET set == [s EXCEPT
                       !.results[character].status = status,
                       !.results[character].attempts =
                          IF s.results[character].status = status THEN @ ELSE @ + 1]
         IN [s |-> IF set.autoProgress /\ status = "mastered"
                     THEN NextCharacter(set, t).s
                     ELSE set,
             ret |-> "true"]

\* setCharacterStatus() that advances on every status when autoProgress is set
SetCharacterStatusAdvancesAlways(s, character, status, note, t) ==
  IF character \notin DOMAIN s.results
    THEN [s |-> s, ret |-> "false"]
    ELSE LET set == [s EXCEPT
                       !.results[character].status = status,
                       !.results[character].attempts = @ + 1]
         IN [s |-> IF set.autoProgress THEN NextCharacter(set, t).s ELSE set,
             ret |-> "true"]

\* setCharacterStatus() without the test for a missing record: the assignment
\* to the missing record throws
SetCharacterStatusNoGuard(s, character, status, note, t) ==
  IF character \notin DOMAIN s.results
    THEN [s |-> s, ret |-> "throws"]
    ELSE LET set == [s EXCEPT
                       !.results[character].status = status,
                       !.results[character].attempts = @ + 1]
         IN [s |-> IF set.autoProgress /\ status = "mastered"
                     THEN NextCharacter(set, t).s
                     ELSE set,
             ret |-> "true"]

\* setCharacterStatus() that puts the new feedback entry before the others
SetCharacterStatusNewestFirst(s, character, status, note, t) ==
  IF character \notin DOMAIN s.results
    THEN [s |-> s, ret |-> "false"]
    ELSE LET set == [s EXCEPT
                       !.results[character].status = status,
                       !.results[character].attempts = @ + 1,
                       !.results[character].feedback =
                          IF note # NoNote
                            THEN <<[timestamp |-> t, status |-> status,
                                    feedback |-> note]>> \o @
                            ELSE @]
         IN [s |-> IF set.autoProgress /\ status = "mastered"
                     THEN NextCharacter(set, t).s
                     ELSE set,
             ret |-> "true"]

\* setCharacterStatus(character, status, feedback)
SetCharacterStatus(s, character, status, note, t) ==
  IF character \notin DOMAIN s.results
    THEN [s |-> s, ret |-> "false"]
    ELSE LET set == [s EXCEPT
                       !.results[character].status = status,
                       !.results[character].attempts = @ + 1,
                       !.results[character].feedback =
                          IF note # NoNote
                            THEN Append(@, [timestamp |-> t, status |-> status,
                                            feedback |-> note])
                            ELSE @]
         IN [s |-> IF set.autoProgress /\ status = "mastered"
                     THEN NextCharacter(set, t).s
                     ELSE set,
             ret |-> "true"]

\* addStroke(strokeData): one entry at the end of the current item's stroke log
AddStroke(s, pressure, duration, t) ==
  LET char == s.characters[s.currentIndex + 1]
  IN IF char \in DOMAIN s.results
       THEN [s EXCEPT !.results[char].strokes =
               Append(@, [timestamp |-> t,
                          pressure |-> IF pressure # 0 THEN pressure ELSE 5,
                          duration |-> duration])]
       ELSE s

\* the arguments addStroke is called with: no summary at all (given FALSE), an
\* empty summary, a summary with pressure and duration
StrokeInputs ==
  {[given |-> FALSE, pressure |-> 0, duration |-> 0],
   [given |-> TRUE, pressure |-> 0, duration |-> 0],
   [given |-> TRUE, pressure |-> 7, duration |-> 3]}

\* addStroke(strokeData) as called: without a record nothing happens; with a record
\* and no summary, reading strokeData.pressure throws before anything is pushed
AddStrokeCall(s, strokeData, t) ==
  LET char == s.characters[s.currentIndex + 1]
  IN IF char \notin DOMAIN s.results
       THEN [s |-> s, ret |-> "none"]
       ELSE IF ~strokeData.given
              THEN [s |-> s, ret |-> "throws"]
              ELSE [s |-> AddStroke(s, strokeData.pressure, strokeData.duration, t),
                    ret |-> "none"]

\* pauseSession(): inactive, clock stopped, tracker cleared
PauseSession(s, t) ==
  ClearTracker(EndCharacterPractice([s EXCEPT !.isActive = FALSE], t))

\* resumeSession(): active, a new tracker, the clock restarted for the current item
ResumeSession(s, t) ==
  LET r == SetupTimeTracking([s EXCEPT !.isActive = TRUE])
  IN IF r.currentIndex < Len(r.characters)
       THEN [r EXCEPT !.characterStartTime = t]
       ELSE r

\* destroy(): pauseSession(), then results.clear()
Destroy(s, t) == [PauseSession(s, t) EXCEPT !.results = <<>>]

\* getProgress() whose mastered percentage is taken over all items
GetProgressOverTotal(res, chars) ==
  LET total == Len(chars)
      practiced == Cardinality({c \in DOMAIN res : res[c].status # "not-practiced"})
      mastered == Cardinality({c \in DOMAIN res : res[c].status = "mastered"})
  IN [total |-> total,
      practiced |-> practiced,
      mastered |-> mastered,
      remaining |-> total - practiced,
      percentagePracticed |-> IF total > 0 THEN Round(practiced * 100, total) ELSE 0,
      percentagemastered |-> IF total > 0 THEN Round(mastered * 100, total) ELSE 0]

\* getProgress(): counts and percentages from the records
GetProgress(res, chars) ==
  LET total == Len(chars)
      practiced == Cardinality({c \in DOMAIN res : res[c].status # "not-practiced"})
      mastered == Cardinality({c \in DOMAIN res : res[c].status = "mastered"})
  IN [total |-> total,
      practiced |-> practiced,
      mastered |-> mastered,
      remaining |-> total - practiced,
      percentagePracticed |-> IF total > 0 THEN Round(practiced * 100, total) ELSE 0,
      percentagemastered |-> IF practiced > 0 THEN Round(mastered * 100, practiced) ELSE 0]

RECURSIVE MapAttempts(_, _)
\* results.reduce((sum, r) => sum + r.attempts, 0) over the records of the items in S
MapAttempts(res, S) ==
  IF S = {} THEN 0
  ELSE LET c == CHOOSE x \in S : TRUE
       IN res[c].attempts + MapAttempts(res, S \ {c})

\* getSessionStats() at instant t of a session started at instant started
GetSessionStats(res, chars, started, t) ==
  LET duration == t - started
      progress == GetProgress(res, chars)
      totalAttempts == MapAttempts(res, DOMAIN res)
  IN [duration |-> Round(duration, MsPerSecond),
      durationMinutes |-> Round(duration, MsPerMinute),
      total |-> progress.total,
      practiced |-> progress.practiced,
      mastered |-> progress.mastered,
      remaining |-> progress.remaining,
      percentagePracticed |-> progress.percentagePracticed,
      percentagemastered |-> progress.percentagemastered,
      totalAttempts |-> totalAttempts,
      averageAttempts |-> IF progress.practiced > 0
                            THEN Round(totalAttempts, progress.practiced) ELSE 0,
      averageTimePerCharacter |-> IF progress.practiced > 0
                                    THEN Round(duration, progress.practiced * MsPerSecond)
                                    ELSE 0]

\* no PracticeSession has been constructed
SessionIdle ==
  /\ characters = <<>>
  /\ autoProgress = FALSE
  /\ results = <<>>
  /\ currentIndex = 0
  /\ isActive = FALSE
  /\ characterStartTime = 0
  /\ liveTimers = 0
  /\ handleLive = FALSE
  /\ completed = FALSE

\* what a session operation leaves alone
SessionFrame == UNCHANGED <<live, now, canvasVars, appVars, storageVars, exportVars>>

\* event: startCharacterPractice(index), or goToCharacter(index), which only calls it
startCharacterPractice(index) ==
  /\ live = "session"
  /\ LET r == StartCharacterPractice(Sess, index, now)
     IN SetSess(r.s) /\ lastRet' = r.ret
  /\ lastOp' = "startCharacterPractice"
  /\ UNCHANGED <<calls, activeTime>>
  /\ SessionFrame

\* event: nextCharacter()
nextCharacter ==
  /\ live = "session"
  /\ LET r == NextCharacter(Sess, now)
     IN SetSess(r.s) /\ lastRet' = r.ret
  /\ lastOp' = "nextCharacter"
  /\ UNCHANGED <<calls, activeTime>>
  /\ SessionFrame

\* event: previousCharacter()
previousCharacter ==
  /\ live = "session"
  /\ LET r == PreviousCharacter(Sess, now)
     IN SetSess(r.s) /\ lastRet' = r.ret
  /\ lastOp' = "previousCharacter"
  /\ UNCHANGED <<calls, activeTime>>
  /\ SessionFrame

\* event: setCharacterStatus(character, status, feedback)
setCharacterStatus(character, status, note) ==
  /\ live = "session"
  /\ character \in AllItems => TotalCalls < MaxCalls
  /\ LET r == SetCharacterStatus(Sess, character, status, note, now)
     IN SetSess(r.s) /\ lastRet' = r.ret
  /\ lastOp' = "setCharacterStatus"
  /\ calls' = IF character \in AllItems THEN [calls EXCEPT ![character] = @ + 1] ELSE calls
  /\ UNCHANGED activeTime
  /\ SessionFrame

\* event: addStroke(strokeData)
addStroke(strokeData) ==
  /\ live = "session"
  /\ characters[currentIndex + 1] \in DOMAIN results =>
       Len(results[characters[currentIndex + 1]].strokes) < MaxStrokes
  /\ LET r == AddStrokeCall(Sess, strokeData, now)
     IN SetSess(r.s) /\ lastRet' = r.ret
  /\ lastOp' = "addStroke"
  /\ UNCHANGED <<calls, activeTime>>
  /\ SessionFrame

\* call: getProgress()
getProgress ==
  /\ live = "session"
  /\ exported' = GetProgress(results, characters)
  /\ lastOp' = "getProgress"
  /\ lastRet' = "none"
  /\ UNCHANGED <<live, now, calls, activeTime, canvasVars, sessionVars, appVars,
                 storageVars, session_date, session_duration>>

\* event: pauseSession()
pauseSession ==
  /\ live = "session"
  /\ SetSess(PauseSession(Sess, now))
  /\ lastOp' = "pauseSession"
  /\ lastRet' = "none"
  /\ UNCHANGED <<calls, activeTime>>
  /\ SessionFrame

\* event: resumeSession()
resumeSession(maxTimers) ==
  /\ live = "session"
  /\ liveTimers < maxTimers
  /\ SetSess(ResumeSession(Sess, now))
  /\ lastOp' = "resumeSession"
  /\ lastRet' = "none"
  /\ UNCHANGED <<calls, activeTime>>
  /\ SessionFrame

\* the setInterval callback of setupTimeTracking(): while the clock runs, the
\* current item's timeSpent is set to the time since the clock started
timeTracker ==
  /\ live = "session"
  /\ liveTimers > 0
  /\ LET char == characters[currentIndex + 1]
     IN results' = IF characterStartTime # 0 /\ char \in DOMAIN results
                     THEN [results EXCEPT ![char].timeSpent = now - characterStartTime]
                     ELSE results
  /\ lastOp' = "timeTracker"
  /\ lastRet' = "none"
  /\ UNCHANGED <<characters, autoProgress, currentIndex, isActive, characterStartTime,
                 liveTimers, handleLive, completed, calls, activeTime>>
  /\ SessionFrame

\* event: destroy()
destroy ==
  /\ live = "session"
  /\ SetSess(Destroy(Sess, now))
  /\ lastOp' = "destroy"
  /\ lastRet' = "none"
  /\ UNCHANGED <<calls, activeTime>>
  /\ SessionFrame

\* event: completeSession()
completeSession ==
  /\ live = "session"
  /\ SetSess(CompleteSession(Sess, now))
  /\ lastOp' = "completeSession"
  /\ lastRet' = "none"
  /\ UNCHANGED <<calls, activeTime>>
  /\ SessionFrame

\* ---------------------------------------------------------- PracticeStorage
\* session.date || new Date().toISOString().split('T')[0], days counted from 1
DateOf(sdate, t) == IF sdate # 0 THEN sdate ELSE t \div MsPerDay + 1

\* the store as one value
Store ==
  [available |-> available, sessions |-> sessions, totalSessions |-> totalSessions,
   settings |-> settings, stored |-> stored]

\* the store takes the value s
SetStore(s) ==
  /\ available' = s.available
  /\ sessions' = s.sessions
  /\ totalSessions' = s.totalSessions
  /\ settings' = s.settings
  /\ stored' = s.stored

\* the ids of the entries of a list
IdsOf(list) == {list[i].id : i \in 1..Len(list)}

\* generateSessionId(): a time stamp and a random suffix, an id no stored entry
\* has; generated ids are the negative numbers
GenerateSessionId(list) ==
  -(CHOOSE k \in 1..(Len(list) + 1) :
      /\ -k \notin IdsOf(list)
      /\ \A l \in 1..(k - 1) : -l \in IdsOf(list))

\* sessions.findIndex(s => s.id === id): the first index, 0 when there is none
FindIndex(list, id) ==
  IF id \in IdsOf(list)
    THEN CHOOSE i \in 1..Len(list) :
           list[i].id = id /\ \A k \in 1..(i - 1) : list[k].id # id
    ELSE 0

\* saveData(data) without its try / catch: a rejected write throws
SaveDataThrows(store, data, accepted) ==
  IF accepted
    THEN [store |-> [data EXCEPT !.stored = TRUE], ret |-> "true"]
    ELSE [store |-> store, ret |-> "throws"]

\* saveData(data): the write, unless localStorage rejects it
SaveData(store, data, accepted) ==
  IF accepted
    THEN [store |-> [data EXCEPT !.stored = TRUE], ret |-> "true"]
    ELSE [store |-> store, ret |-> "false"]

\* the entry saveSession builds: the session's id or a generated one, its date or
\* today's, its start time, the instant of saving
SessionData(list, session, t) ==
  [id |-> IF session.id # 0 THEN session.id ELSE GenerateSessionId(list),
   date |-> DateOf(session.date, t),
   startTime |-> session.startTime,
   savedAt |-> t]

\* saveSession(session): the entry replaces the one with its id or is appended,
\* the list is cut to its last 50, the statistics are counted up, the data saved
SaveSession(store, session, t, accepted) ==
  IF ~store.available \/ ~store.stored
    THEN [store |-> store, ret |-> "false"]
    ELSE LET sessionData == SessionData(store.sessions, session, t)
             existingIndex == FindIndex(store.sessions, sessionData.id)
             list == IF existingIndex > 0
                       THEN [store.sessions EXCEPT ![existingIndex] = sessionData]
                       ELSE Append(store.sessions, sessionData)
         IN SaveData(store,
                     [store EXCEPT !.sessions = LastN(list, SessionCap),
                                   !.totalSessions = @ + 1],
                     accepted)

\* deleteSession(sessionId): the entries with another id stay
DeleteSession(store, sessionId, accepted) ==
  IF ~store.available \/ ~store.stored
    THEN [store |-> store, ret |-> "false"]
    ELSE SaveData(store,
                  [store EXCEPT !.sessions = SelectSeq(@, LAMBDA s : s.id # sessionId)],
                  accepted)

\* saveSettings(settings): the given settings over the stored ones
SaveSettings(store, brushSize, accepted) ==
  IF ~store.available \/ ~store.stored
    THEN [store |-> store, ret |-> "false"]
    ELSE SaveData(store, [store EXCEPT !.settings = brushSize], accepted)

\* initializeStorage(): no sessions, default settings, zero statistics
InitialData(store) ==
  [store EXCEPT !.sessions = <<>>, !.totalSessions = 0, !.settings = DefaultBrushSize,
                !.stored = TRUE]

\* clearData(): the item is removed, then written anew; a rejected write leaves
\* no item behind
ClearData(store, accepted) ==
  IF ~store.available
    THEN [store |-> store, ret |-> "false"]
    ELSE IF accepted
           THEN [store |-> InitialData(store), ret |-> "true"]
           ELSE [store |-> [store EXCEPT !.sessions = <<>>, !.totalSessions = 0,
                                         !.settings = 0, !.stored = FALSE],
                 ret |-> "false"]

\* the filter of removeDuplicateSessions: the entries that are the first of their
\* date-startTime key, in their order
FirstOfKey(list) ==
  LET Key(i) == <<list[i].date, list[i].startTime>>
      kept == SelectSeq([i \in 1..Len(list) |-> i],
                        LAMBDA i : \A k \in 1..(i - 1) : Key(k) # Key(i))
  IN [p \in 1..Len(kept) |-> list[kept[p]]]

\* sort((a, b) => b.savedAt - a.savedAt): latest first, equal ones in their
\* order (Array.prototype.sort is stable)
SortBySavedAtDesc(list) == SortSeq(list, LAMBDA a, b : a.savedAt > b.savedAt)

\* removeDuplicateSessions(sessions)
RemoveDuplicateSessions(list) == SortBySavedAtDesc(FirstOfKey(list))

\* importData(importedData): without version or sessions the data is refused;
\* otherwise the lists are joined, duplicates removed, the result sorted and saved
ImportData(store, importedData, accepted) ==
  IF ~store.available \/ ~importedData.valid
    THEN [store |-> store, ret |-> "false"]
    ELSE LET current == IF store.stored THEN store
                        ELSE [store EXCEPT !.sessions = <<>>, !.totalSessions = 0,
                                           !.settings = 0]
         IN SaveData(store,
                     [current EXCEPT
                        !.sessions = RemoveDuplicateSessions(@ \o importedData.sessions),
                        !.totalSessions = @ + importedData.totalSessions,
                        !.settings = IF importedData.settings # 0
                                       THEN importedData.settings ELSE @],
                     accepted)

\* no store has been constructed
StorageIdle ==
  /\ available = FALSE
  /\ sessions = <<>>
  /\ totalSessions = 0
  /\ settings = 0
  /\ stored = FALSE

\* the store new PracticeStorage() leaves: unavailable without localStorage,
\* else initialised
NewStorage(isAvailable) ==
  [available |-> isAvailable, sessions |-> <<>>, totalSessions |-> 0,
   settings |-> IF isAvailable THEN DefaultBrushSize ELSE 0, stored |-> isAvailable]

\* new PracticeStorage() has run
StorageInit ==
  /\ available \in BOOLEAN
  /\ sessions = NewStorage(available).sessions
  /\ totalSessions = NewStorage(available).totalSessions
  /\ settings = NewStorage(available).settings
  /\ stored = NewStorage(available).stored

\* what a PracticeStorage method leaves alone
StorageFrame ==
  UNCHANGED <<live, now, calls, activeTime, canvasVars, sessionVars, appVars, exportVars>>

\* a stored list of k sessions saved one after the other at the instants 1..k
Batch(k) == [i \in 1..k |-> [id |-> i, date |-> 1, startTime |-> i, savedAt |-> i]]

\* the sessions handed to saveSession: one without an id (as the app's), one with
SessionInputs ==
  {[id |-> 0, date |-> 1, startTime |-> 1], [id |-> 1, date |-> 1, startTime |-> 1]}

\* the sizes of the imported lists: short, at the cap, over the cap
ImportSizes == {2, SessionCap, SessionCap + 1}

\* the data handed to importData: without a version, or a list of sessions with
\* default settings and statistics that count nothing
ImportInputs ==
  {[valid |-> FALSE, sessions |-> <<>>, totalSessions |-> 0, settings |-> 0]}
    \cup {[valid |-> TRUE, sessions |-> Batch(k), totalSessions |-> 0,
            settings |-> DefaultBrushSize] : k \in ImportSizes}

\* call: storage.saveSession(session); accepted is whether localStorage takes the write
saveSession(session, accepted) ==
  /\ live = "storage"
  /\ totalSessions < MaxSaves
  /\ LET r == SaveSession(Store, session, now, accepted)
     IN SetStore(r.store) /\ lastRet' = r.ret
  /\ lastOp' = "saveSession"
  /\ StorageFrame

\* call: storage.importData(importedData)
importData(importedData, accepted) ==
  /\ live = "storage"
  /\ LET r == ImportData(Store, importedData, accepted)
     IN SetStore(r.store) /\ lastRet' = r.ret
  /\ lastOp' = "importData"
  /\ StorageFrame

\* call: storage.deleteSession(sessionId)
deleteSession(sessionId, accepted) ==
  /\ live = "storage"
  /\ LET r == DeleteSession(Store, sessionId, accepted)
     IN SetStore(r.store) /\ lastRet' = r.ret
  /\ lastOp' = "deleteSession"
  /\ StorageFrame

\* call: storage.clearData()
clearData(accepted) ==
  /\ live = "storage"
  /\ LET r == ClearData(Store, accepted)
     IN SetStore(r.store) /\ lastRet' = r.ret
  /\ lastOp' = "clearData"
  /\ StorageFrame

\* call: storage.saveSettings({brushSize})
saveSettings(brushSize, accepted) ==
  /\ live = "storage"
  /\ LET r == SaveSettings(Store, brushSize, accepted)
     IN SetStore(r.store) /\ lastRet' = r.ret
  /\ lastOp' = "saveSettings"
  /\ StorageFrame

\* -------------------------------------------------------- ChineseWritingApp
\* initializeCharacters(): the record every item starts with
NewAppRecord ==
  [status |-> "not-practiced", attempts |-> 0, timeSpent |-> 0, lastPracticed |-> 0]

\* the app as one value
App ==
  [characters |-> app_characters, currentIndex |-> app_currentIndex,
   results |-> app_results]

\* the app takes the value a
SetApp(a) ==
  /\ app_characters' = a.characters
  /\ app_currentIndex' = a.currentIndex
  /\ app_results' = a.results
  /\ search' = search

\* loadCharacter(index): out of range is ignored; otherwise the item is selected
\* and the canvas cleared
LoadCharacter(a, index) ==
  IF index < 0 \/ index >= Len(a.characters)
    THEN [a |-> a, cleared |-> FALSE]
    ELSE [a |-> [a EXCEPT !.currentIndex = index], cleared |-> TRUE]

\* setCharacterStatus(status): the current item's record
AppSetCharacterStatus(a, status, t) ==
  LET char == a.characters[a.currentIndex + 1]
  IN [a EXCEPT !.results[char].status = status,
               !.results[char].attempts = @ + 1,
               !.results[char].lastPracticed = t]

\* a page address without parameters
NoSearch == [chars |-> <<>>, characters |-> <<>>]

\* no app has been constructed
AppIdle ==
  /\ app_characters = <<>>
  /\ app_currentIndex = 0
  /\ app_results = <<>>
  /\ search = NoSearch

\* what an app operation on the item list leaves alone
AppFrame == UNCHANGED <<live, now, sessionVars, exportVars>>

\* the canvas untouched
CanvasSame == UNCHANGED canvasVars

\* event: loadCharacter(index), from a click on the character list
loadCharacter(index, maxHistory) ==
  /\ live = "app"
  /\ LET r == LoadCharacter(App, index)
     IN /\ SetApp(r.a)
        /\ IF r.cleared
             THEN historyIndex + 1 < maxHistory /\ Push(BlankCanvas)
             ELSE CanvasSame
  /\ lastOp' = "loadCharacter"
  /\ lastRet' = "none"
  /\ UNCHANGED <<calls, activeTime, storageVars>>
  /\ AppFrame

\* event: previousCharacter() of the app
app_previousCharacter(maxHistory) ==
  /\ live = "app"
  /\ IF app_currentIndex > 0
       THEN LET r == LoadCharacter(App, app_currentIndex - 1)
            IN /\ SetApp(r.a)
               /\ IF r.cleared
                    THEN historyIndex + 1 < maxHistory /\ Push(BlankCanvas)
                    ELSE CanvasSame
       ELSE UNCHANGED appVars /\ CanvasSame
  /\ lastOp' = "app.previousCharacter"
  /\ lastRet' = "none"
  /\ UNCHANGED <<calls, activeTime, storageVars>>
  /\ AppFrame

\* event: nextCharacter() of the app
app_nextCharacter(maxHistory) ==
  /\ live = "app"
  /\ IF app_currentIndex < Len(app_characters) - 1
       THEN LET r == LoadCharacter(App, app_currentIndex + 1)
            IN /\ SetApp(r.a)
               /\ IF r.cleared
                    THEN historyIndex + 1 < maxHistory /\ Push(BlankCanvas)
                    ELSE CanvasSame
       ELSE UNCHANGED appVars /\ CanvasSame
  /\ lastOp' = "app.nextCharacter"
  /\ lastRet' = "none"
  /\ UNCHANGED <<calls, activeTime, storageVars>>
  /\ AppFrame

\* the symbols of a chars parameter: two letters, the separators, the blank
Alphabet == {"A", "B", ",", "|", " "}

\* the separators of split(/[,|]/)
Separators == {",", "|"}

\* the values of a URL parameter: texts of symbols, the empty one also for a
\* parameter that is not given
Texts == UNION {[1..n -> Alphabet] : n \in 0..MaxTextLen}

RECURSIVE Split(_)
\* chars.split(/[,|]/): the pieces between the separators
Split(text) ==
  IF \A i \in 1..Len(text) : text[i] \notin Separators
    THEN <<text>>
    ELSE LET i == CHOOSE k \in 1..Len(text) :
                    text[k] \in Separators /\ \A l \in 1..(k - 1) : text[l] \notin Separators
         IN <<SubSeq(text, 1, i - 1)>> \o Split(SubSeq(text, i + 1, Len(text)))

RECURSIVE Trim(_)
\* char.trim(): without the blanks at both ends
Trim(text) ==
  IF text = <<>> THEN text
  ELSE IF Head(text) = " " THEN Trim(Tail(text))
  ELSE IF text[Len(text)] = " " THEN Trim(SubSeq(text, 1, Len(text) - 1))
  ELSE text

\* parseURLParameters() that does not trim the pieces
ParseURLParametersNoTrim(list, chars, charactersParam) ==
  LET given == IF chars # <<>> THEN chars ELSE charactersParam
  IN IF given # <<>>
       THEN SelectSeq(Split(given), LAMBDA char : char # <<>>)
       ELSE list

\* parseURLParameters(): chars, or else characters, split, trimmed, the empty
\* pieces dropped; without either the list stays as it is
ParseURLParameters(list, chars, charactersParam) ==
  LET given == IF chars # <<>> THEN chars ELSE charactersParam
      pieces == Split(given)
  IN IF given # <<>>
       THEN SelectSeq([i \in 1..Len(pieces) |-> Trim(pieces[i])], LAMBDA char : char # <<>>)
       ELSE list

\* the default test characters of initializeCharacters()
DefaultCharacters ==
  <<(<<"D1">>), (<<"D2">>), (<<"D3">>), (<<"D4">>), (<<"D5">>), (<<"D6">>), (<<"D7">>), (<<"D8">>)>>

\* initializeCharacters(): the defaults for an empty list, a fresh record per item
InitializeCharacters(list) ==
  LET chars == IF Len(list) = 0 THEN DefaultCharacters ELSE list
  IN [characters |-> chars, currentIndex |-> 0,
      results |-> [c \in ItemsOf(chars) |-> NewAppRecord]]

\* init() of the app: storage, the URL parameters, the items, the canvas and
\* loadCharacter(0), which clears the canvas and saves a second snapshot
app_init ==
  /\ live = "app"
  /\ lastOp = "constructed"
  /\ \E isAvailable \in BOOLEAN : SetStore(NewStorage(isAvailable))
  /\ SetApp(InitializeCharacters(ParseURLParameters(app_characters, search.chars,
                                                    search.characters)))
  /\ LET first == SaveState(<<>>, -1, BlankCanvas)
         second == SaveState(first.history, first.historyIndex, BlankCanvas)
     IN /\ canvas' = BlankCanvas
        /\ history' = second.history
        /\ historyIndex' = second.historyIndex
        /\ cutFuture' = FALSE
        /\ preUndo' = NoState
        /\ pushLog' = <<ToJSON(BlankCanvas), ToJSON(BlankCanvas)>>
  /\ lastOp' = "app.init"
  /\ lastRet' = "none"
  /\ UNCHANGED <<calls, activeTime>>
  /\ AppFrame

\* the app's session as saveSession reads it: no id, the date and the start time
\* set when the app started
AppSession == [id |-> 0, date |-> DateOf(0, 1), startTime |-> 1]

\* event: setCharacterStatus(status) of the app, with its autosave
app_setCharacterStatus(status, accepted) ==
  /\ live = "app"
  /\ TotalCalls < MaxCalls
  /\ SetApp(AppSetCharacterStatus(App, status, now))
  /\ SetStore(SaveSession(Store, AppSession, now, accepted).store)
  /\ calls' = [calls EXCEPT ![app_characters[app_currentIndex + 1]] = @ + 1]
  /\ UNCHANGED activeTime
  /\ lastOp' = "app.setCharacterStatus"
  /\ lastRet' = "none"
  /\ CanvasSame
  /\ AppFrame

\* ---------------------------------------------------------- ResultsExporter
RECURSIVE MapKeys(_)
\* the keys of the Map built from a list, in insertion order
MapKeys(chars) ==
  IF chars = <<>> THEN <<>>
  ELSE LET front == MapKeys(SubSeq(chars, 1, Len(chars) - 1))
           c == chars[Len(chars)]
       IN IF c \in ItemsOf(front) THEN front ELSE Append(front, c)

\* the status read through result?.status
StatusOf(res, c) == IF c \in DOMAIN res THEN res[c].status ELSE "undefined"

\* generateResults(session, characters): the Map's entries, switch without default
GenerateResults(res, chars) ==
  LET keys == MapKeys(chars)
  IN [totalCharacters |-> Len(chars),
      mastered |-> SelectSeq(keys, LAMBDA c : res[c].status = "mastered"),
      needsWork |-> SelectSeq(keys, LAMBDA c : res[c].status = "needs-work"),
      notPracticed |-> SelectSeq(keys, LAMBDA c : res[c].status = "not-practiced")]

\* new Date().toISOString(): the instant itself
ToISOString(t) == t

\* hasDetailedData(session): some record has attempts
HasDetailedData(res) == \E c \in DOMAIN res : res[c].attempts > 0

\* formatForFleetingNotes() whose success rate is taken over all items
FormatForFleetingNotesOverAll(b, res) ==
  LET all == Len(b.mastered) + Len(b.needsWork) + Len(b.notPracticed)
      allPracticed == b.mastered \o b.needsWork
  IN [date |-> b.date, duration |-> b.duration, totalChars |-> b.totalCharacters,
      mastered |-> b.mastered, needsWork |-> b.needsWork,
      notPracticed |-> b.notPracticed,
      details |-> <<>>,
      successRate |-> IF all > 0 THEN Round(100 * Len(b.mastered), all) ELSE 0]

\* formatForFleetingNotes(results, session): the fields the digest text is made of
FormatForFleetingNotes(b, res) ==
  LET practiced == Len(b.mastered) + Len(b.needsWork)
      allPracticed == b.mastered \o b.needsWork
  IN [date |-> b.date, duration |-> b.duration, totalChars |-> b.totalCharacters,
      mastered |-> b.mastered, needsWork |-> b.needsWork,
      notPracticed |-> b.notPracticed,
      details |-> IF HasDetailedData(res)
                    THEN [i \in 1..Len(allPracticed) |->
                            <<allPracticed[i],
                              IF res[allPracticed[i]].attempts # 0
                                THEN res[allPracticed[i]].attempts ELSE 1,
                              IF res[allPracticed[i]].status = "mastered"
                                THEN "mastered" ELSE "needs work">>]
                    ELSE <<>>,
      successRate |-> IF practiced > 0 THEN Round(100 * Len(b.mastered), practiced) ELSE 0]

\* generateResults(session, characters) called at instant t: the digest
Digest(res, chars, sdate, sduration, t) ==
  LET b == GenerateResults(res, chars)
  IN FormatForFleetingNotes(
       [date |-> DateOf(sdate, t), duration |-> Round(sduration, MsPerMinute),
        totalCharacters |-> b.totalCharacters, mastered |-> b.mastered,
        needsWork |-> b.needsWork, notPracticed |-> b.notPracticed], res)

\* the first line generateCSV writes
CsvHeader == <<"Character", "Pinyin", "Meaning", "Status", "Attempts", "Duration">>

\* generateCSV() that writes a row for the recorded items only
GenerateCSVRecordedOnly(res, chars) ==
  LET recorded == SelectSeq(chars, LAMBDA char : char \in DOMAIN res)
  IN <<CsvHeader>> \o
     [i \in 1..Len(recorded) |->
        <<recorded[i], "", "", res[recorded[i]].status, res[recorded[i]].attempts,
          Round(res[recorded[i]].timeSpent, MsPerSecond)>>]

\* generateCSV(session, characters): the header, then one row of six fields per
\* list entry; session.characterData is set nowhere, so pinyin and meaning are ''
GenerateCSV(res, chars) ==
  <<CsvHeader>> \o
  [i \in 1..Len(chars) |->
     IF chars[i] \in DOMAIN res
       THEN <<chars[i], "", "", res[chars[i]].status, res[chars[i]].attempts,
              Round(res[chars[i]].timeSpent, MsPerSecond)>>
       ELSE <<chars[i], "", "", "not-practiced", 0, 0>>]

\* generateJSON(session, characters) called at instant t
GenerateJSON(res, chars, sdate, sduration, t) ==
  [metadata |-> [date |-> DateOf(sdate, t), sessionType |-> "character-practice",
                 duration |-> sduration, totalCharacters |-> Len(chars),
                 exportedAt |-> ToISOString(t)],
   results |-> [i \in 1..Len(chars) |->
                  IF chars[i] \in DOMAIN res
                    THEN [character |-> chars[i], status |-> res[chars[i]].status,
                          attempts |-> res[chars[i]].attempts,
                          timeSpent |-> res[chars[i]].timeSpent,
                          lastPracticed |-> res[chars[i]].lastPracticed]
                    ELSE [character |-> chars[i], status |-> "not-practiced",
                          attempts |-> 0, timeSpent |-> 0, lastPracticed |-> 0]]]

RECURSIVE ListAttempts(_, _)
\* analyzeResults: totalAttempts += result.attempts, over the list's entries
ListAttempts(res, chars) ==
  IF chars = <<>> THEN 0
  ELSE (IF Head(chars) \in DOMAIN res THEN res[Head(chars)].attempts ELSE 0)
       + ListAttempts(res, Tail(chars))

\* analyzeResults(session, characters): the list's items, default not practiced
AnalyzeResults(res, chars) ==
  LET mastered == SelectSeq(chars, LAMBDA c : StatusOf(res, c) = "mastered")
      needsWork == SelectSeq(chars, LAMBDA c : StatusOf(res, c) = "needs-work")
      practicedsCount == Len(mastered) + Len(needsWork)
      totalAttempts == ListAttempts(res, chars)
  IN [total |-> Len(chars),
      mastered |-> mastered,
      needsWork |-> needsWork,
      notPracticed |->
        SelectSeq(chars, LAMBDA c : StatusOf(res, c) \notin {"mastered", "needs-work"}),
      practiced |-> practicedsCount,
      successRate |-> IF practicedsCount > 0
                        THEN Round(100 * Len(mastered), practicedsCount) ELSE 0,
      totalAttempts |-> totalAttempts,
      averageAttempts |-> IF practicedsCount > 0
                            THEN Round(totalAttempts, practicedsCount) ELSE 0]

\* getCharacterAnalysis(): the Map's entries, default not practiced
GetCharacterAnalysis(s) ==
  LET keys == MapKeys(s.characters)
  IN [mastered |-> SelectSeq(keys, LAMBDA c : s.results[c].status = "mastered"),
      needsWork |-> SelectSeq(keys, LAMBDA c : s.results[c].status = "needs-work"),
      notPracticed |->
        SelectSeq(keys, LAMBDA c : s.results[c].status \notin {"mastered", "needs-work"})]

\* one recommendation: its type, its priority, the note of its message and the
\* items its message lists
Recommendation(type, priority, note, items) ==
  [type |-> type, priority |-> priority, message |-> note, characters |-> items]

\* the pace rule of getRecommendations: over 120 s per item, else under 30 s
PaceRule(stats) ==
  IF stats.averageTimePerCharacter > 120
    THEN <<Recommendation("pace", "low", "faster pace", <<>>)>>
    ELSE IF stats.averageTimePerCharacter < 30
           THEN <<Recommendation("pace", "low", "more time", <<>>)>>
           ELSE <<>>

\* the success rule of getRecommendations: at least 80 percent, else under 50
SuccessRule(stats) ==
  IF stats.percentagemastered >= 80
    THEN <<Recommendation("success", "positive", "excellent progress", <<>>)>>
    ELSE IF stats.percentagemastered < 50
           THEN <<Recommendation("improvement", "medium", "focus on stroke order", <<>>)>>
           ELSE <<>>

\* the completion and review rules of getRecommendations
ListRules(analysis) ==
  (IF Len(analysis.notPracticed) > 0
     THEN <<Recommendation("completion", "high", "complete practice", analysis.notPracticed)>>
     ELSE <<>>)
  \o (IF Len(analysis.needsWork) > 0
        THEN <<Recommendation("review", "medium", "review these", analysis.needsWork)>>
        ELSE <<>>)

\* getRecommendations() with the success rule evaluated before the pace rule
GetRecommendationsSuccessFirst(s, started, t) ==
  LET stats == GetSessionStats(s.results, s.characters, started, t)
  IN ListRules(GetCharacterAnalysis(s)) \o SuccessRule(stats) \o PaceRule(stats)

\* getRecommendations(): completion, review, pace, then success or improvement
GetRecommendations(s, started, t) ==
  LET stats == GetSessionStats(s.results, s.characters, started, t)
  IN ListRules(GetCharacterAnalysis(s)) \o PaceRule(stats) \o SuccessRule(stats)

\* what an export call leaves alone: everything but its return value
ExportFrame ==
  UNCHANGED <<live, now, calls, activeTime, canvasVars, sessionVars, appVars, storageVars,
              session_date, session_duration>>

\* call: ResultsExporter.generateResults(session, characters)
generateResults ==
  /\ live = "export"
  /\ exported' = Digest(app_results, app_characters, session_date, session_duration, now)
  /\ lastOp' = "generateResults"
  /\ lastRet' = "none"
  /\ ExportFrame

\* call: ResultsExporter.generateCSV(session, characters)
generateCSV ==
  /\ live = "export"
  /\ exported' = GenerateCSV(app_results, app_characters)
  /\ lastOp' = "generateCSV"
  /\ lastRet' = "none"
  /\ ExportFrame

\* call: ResultsExporter.generateJSON(session, characters)
generateJSON ==
  /\ live = "export"
  /\ exported' = GenerateJSON(app_results, app_characters, session_date,
                              session_duration, now)
  /\ lastOp' = "generateJSON"
  /\ lastRet' = "none"
  /\ ExportFrame

\* call: ResultsExporter.analyzeResults(session, characters)
analyzeResults ==
  /\ live = "export"
  /\ exported' = AnalyzeResults(app_results, app_characters)
  /\ lastOp' = "analyzeResults"
  /\ lastRet' = "none"
  /\ ExportFrame

\* call: getSessionStats() on a session with these records, constructed at instant 1
getSessionStats ==
  /\ live = "export"
  /\ exported' = GetSessionStats(app_results, app_characters, 1, now)
  /\ lastOp' = "getSessionStats"
  /\ lastRet' = "none"
  /\ ExportFrame

\* the clock moves on by step, no further than maxNow; a session's current item
\* has been active for that long if its clock is running
Tick(step, maxNow) ==
  /\ now + step <= maxNow
  /\ now' = now + step
  /\ activeTime' = IF live = "session" /\ characterStartTime # 0
                     THEN [activeTime EXCEPT ![characters[currentIndex + 1]] = @ + step]
                     ELSE activeTime
  /\ UNCHANGED <<live, lastOp, lastRet, calls, canvasVars, sessionVars, appVars,
                 storageVars, exportVars>>

\* no export has been called; the app keeps no session.date and starts at duration 0
ExportIdle ==
  /\ session_date = 0
  /\ session_duration = 0
  /\ exported = "none"

\* ----------------------------------------------------------- specifications
\* no call has been made on any item
NoCalls == [c \in AllItems |-> 0]

\* the indexes an event may name: one below the list, the list, one past it
Indexes == -1..3

\* a DrawingCanvas on its own, just constructed
InitCanvas ==
  /\ live = "canvas"
  /\ now = 1
  /\ lastOp = "init"
  /\ lastRet = "none"
  /\ calls = NoCalls
  /\ activeTime = NoCalls
  /\ CanvasInit
  /\ SessionIdle
  /\ AppIdle
  /\ StorageIdle
  /\ ExportIdle

\* a DrawingCanvas whose constructor has set the fields and not yet called init()
InitCanvasConstructed ==
  /\ live = "canvas"
  /\ now = 1
  /\ lastOp = "constructed"
  /\ lastRet = "none"
  /\ calls = NoCalls
  /\ activeTime = NoCalls
  /\ CanvasIdle
  /\ SessionIdle
  /\ AppIdle
  /\ StorageIdle
  /\ ExportIdle

\* a PracticeSession on its own, just constructed
InitSession ==
  /\ live = "session"
  /\ now = 1
  /\ lastOp = "init"
  /\ lastRet = "none"
  /\ calls = NoCalls
  /\ activeTime = NoCalls
  /\ CanvasIdle
  /\ \E chars \in ItemLists, auto \in BOOLEAN : SessIs(NewSession(chars, auto))
  /\ AppIdle
  /\ StorageIdle
  /\ ExportIdle

\* the app after init(): storage, the item list with its records, the canvas,
\* then loadCharacter(0), which clears the canvas and pushes a second snapshot
InitApp ==
  /\ live = "app"
  /\ now = 1
  /\ lastOp = "init"
  /\ lastRet = "none"
  /\ calls = NoCalls
  /\ activeTime = NoCalls
  /\ LET first == SaveState(<<>>, -1, BlankCanvas)
         second == SaveState(first.history, first.historyIndex, BlankCanvas)
     IN /\ canvas = BlankCanvas
        /\ history = second.history
        /\ historyIndex = second.historyIndex
        /\ cutFuture = FALSE
        /\ preUndo = NoState
        /\ pushLog = <<ToJSON(BlankCanvas), ToJSON(BlankCanvas)>>
  /\ SessionIdle
  /\ app_characters \in ItemLists
  /\ app_currentIndex = 0
  /\ app_results = [c \in ItemsOf(app_characters) |-> NewAppRecord]
  /\ search = NoSearch
  /\ StorageInit
  /\ ExportIdle

\* the app constructed, init() not yet run
InitConstructed ==
  /\ live = "app"
  /\ now = 1
  /\ lastOp = "constructed"
  /\ lastRet = "none"
  /\ calls = NoCalls
  /\ activeTime = NoCalls
  /\ CanvasIdle
  /\ SessionIdle
  /\ app_characters = <<>>
  /\ app_currentIndex = 0
  /\ app_results = <<>>
  /\ search \in [chars : Texts, characters : {<<>>, <<"B">>}]
  /\ StorageIdle
  /\ ExportIdle

\* a PracticeStorage on its own
InitStore ==
  /\ live = "storage"
  /\ now = 1
  /\ lastOp = "init"
  /\ lastRet = "none"
  /\ calls = NoCalls
  /\ activeTime = NoCalls
  /\ CanvasIdle
  /\ SessionIdle
  /\ AppIdle
  /\ StorageInit
  /\ ExportIdle

\* the item lists given to the exporters: plain, with a repeated item, empty
ExportLists == {<<"A", "B", "C">>, <<"A", "A", "B">>, <<>>}

\* the records of an exported session: any status with any number of attempts
ExportRecords ==
  [status : Statuses, attempts : 0..MaxExportAttempts, timeSpent : {0},
   lastPracticed : {0}]

\* a session with its records, about to be exported
InitExport ==
  /\ live = "export"
  /\ now = 1
  /\ lastOp = "init"
  /\ lastRet = "none"
  /\ calls = NoCalls
  /\ activeTime = NoCalls
  /\ CanvasIdle
  /\ SessionIdle
  /\ app_characters \in ExportLists
  /\ app_currentIndex = 0
  /\ app_results \in [ItemsOf(app_characters) -> ExportRecords]
  /\ search = NoSearch
  /\ StorageIdle
  /\ session_date \in {0, 1}
  /\ session_duration \in {0, 90000}
  /\ exported = "none"

\* a session about to be exported as CSV: the list may hold items without a
\* record, and an item twice
InitCsv ==
  /\ live = "export"
  /\ now = 1
  /\ lastOp = "init"
  /\ lastRet = "none"
  /\ calls = NoCalls
  /\ activeTime = NoCalls
  /\ CanvasIdle
  /\ SessionIdle
  /\ app_characters \in ExportLists
  /\ app_currentIndex = 0
  /\ app_results \in UNION {[recorded -> ExportRecords] :
                               recorded \in SUBSET ItemsOf(app_characters)}
  /\ search = NoSearch
  /\ StorageIdle
  /\ session_date = 1
  /\ session_duration = 0
  /\ exported = "none"

\* the CSV export called on any such session
NextCsv == generateCSV

SpecCsv == InitCsv /\ [][NextCsv]_vars

\* the exporters called at any instant of two days
NextExport ==
  \/ generateResults
  \/ generateCSV
  \/ generateJSON
  \/ analyzeResults
  \/ getSessionStats
  \/ Tick(MsPerDay \div 2, MaxExportNow)

SpecExport == InitExport /\ [][NextExport]_vars

\* the canvas alone, drawn on until the history cap is passed; the full canvas
\* is cleared once, after an unbroken run of strokes
NextCanvas ==
  \/ onPathCreated(MaxPaths, MaxPaths + HistoryCap)
  \/ (Len(pushLog) = MaxPaths + 1 /\ clear(MaxPaths + HistoryCap))
  \/ undo
  \/ redo

SpecCanvas == InitCanvas /\ [][NextCanvas]_vars

\* the canvas from its construction on: init(), then strokes until the history
\* cap is passed, a clear of the full canvas, undo and redo
NextBoot ==
  \/ canvas_init
  \/ (lastOp # "constructed" /\ onPathCreated(MaxPaths, MaxPaths + HistoryCap))
  \/ (lastOp # "constructed" /\ Len(pushLog) = MaxPaths + 1 /\ clear(MaxPaths + HistoryCap))
  \/ (lastOp # "constructed" /\ undo)
  \/ (lastOp # "constructed" /\ redo)

SpecBoot == InitCanvasConstructed /\ [][NextBoot]_vars

\* the canvas alone, with clear, on a short history
NextDraw ==
  \/ onPathCreated(MaxDrawPaths, MaxDrawHistory)
  \/ clear(MaxDrawHistory)
  \/ undo
  \/ redo

SpecDraw == InitCanvas /\ [][NextDraw]_vars

\* the canvas alone on a short history whose snapshots may become unreadable
NextRestore ==
  \/ onPathCreated(MaxDrawPaths, MaxDrawHistory)
  \/ clear(MaxDrawHistory)
  \/ undo
  \/ redo
  \/ \E i \in 1..MaxDrawHistory : corruptSnapshot(i)

SpecRestore == InitCanvas /\ [][NextRestore]_vars

\* the events of a PracticeSession
NextSession ==
  \/ \E index \in Indexes : startCharacterPractice(index)
  \/ nextCharacter
  \/ previousCharacter
  \/ \E c \in AllItems \cup {Stranger}, status \in Statuses :
        setCharacterStatus(c, status, NoNote)
  \/ pauseSession
  \/ resumeSession(MaxTimers)
  \/ completeSession

\* the events of the app and its canvas
NextApp ==
  \/ \E index \in Indexes : loadCharacter(index, MaxAppHistory)
  \/ app_previousCharacter(MaxAppHistory)
  \/ app_nextCharacter(MaxAppHistory)
  \/ \E status \in Statuses : app_setCharacterStatus(status, TRUE)
  \/ onPathCreated(MaxAppPaths, MaxAppHistory)
  \/ clear(MaxAppHistory)
  \/ undo
  \/ redo

\* exportSession() called at instant t on a session constructed at started:
\* the list, the times, the records and completed: !this.isActive
ExportSession(s, started, t) ==
  [characters |-> s.characters, startTime |-> started, duration |-> t - started,
   results |-> s.results, completed |-> ~s.isActive]

\* call: session.exportSession() on a session constructed at instant 1
exportSession ==
  /\ live = "session"
  /\ exported' = ExportSession(Sess, 1, now)
  /\ lastOp' = "exportSession"
  /\ lastRet' = "none"
  /\ UNCHANGED <<live, now, calls, activeTime, canvasVars, sessionVars, appVars,
                 storageVars, session_date, session_duration>>

\* a PracticeSession that is practised, paused, resumed, completed and exported
NextFinish ==
  \/ \E index \in 0..2 : startCharacterPractice(index)
  \/ pauseSession
  \/ resumeSession(MaxTimers)
  \/ completeSession
  \/ exportSession

SpecFinish == InitSession /\ [][NextFinish]_vars

\* statuses set with and without feedback on a PracticeSession whose items
\* collect strokes
NextNote ==
  \/ \E index \in 0..1 : startCharacterPractice(index)
  \/ \E c \in {"A", "B"}, status \in {"mastered", "needs-work"}, note \in {NoNote, "good"} :
        setCharacterStatus(c, status, note)
  \/ addStroke([given |-> TRUE, pressure |-> 7, duration |-> 3])

SpecNote == InitSession /\ [][NextNote]_vars

\* the life cycle of a PracticeSession and of its time tracker
NextTimers ==
  \/ \E index \in 0..2 : startCharacterPractice(index)
  \/ pauseSession
  \/ resumeSession(MaxLiveTimers)
  \/ completeSession
  \/ destroy

SpecTimers == InitSession /\ [][NextTimers]_vars

\* a PracticeSession over a few instants: selecting, pausing, resuming
NextClock ==
  \/ \E index \in 0..2 : startCharacterPractice(index)
  \/ pauseSession
  \/ resumeSession(MaxTimers)
  \/ timeTracker
  \/ (live = "session" /\ Tick(1, MaxNow))

SpecClock == InitSession /\ [][NextClock]_vars

\* the first-visit stamps of a PracticeSession over a few instants
NextStamp ==
  \/ \E index \in 0..2 : startCharacterPractice(index)
  \/ pauseSession
  \/ resumeSession(MaxTimers)
  \/ (live = "session" /\ Tick(1, MaxNow))

SpecStamp == InitSession /\ [][NextStamp]_vars

\* the stroke logs of a PracticeSession: selection, statuses, strokes, disposal
NextStrokes ==
  \/ \E index \in 0..2 : startCharacterPractice(index)
  \/ \E c \in AllItems, status \in Statuses : setCharacterStatus(c, status, NoNote)
  \/ \E strokeData \in StrokeInputs : addStroke(strokeData)
  \/ destroy

SpecStrokes == InitSession /\ [][NextStrokes]_vars

\* call: session.getRecommendations() on a session constructed at instant 1
getRecommendations ==
  /\ live = "session"
  /\ exported' = GetRecommendations(Sess, 1, now)
  /\ lastOp' = "getRecommendations"
  /\ lastRet' = "none"
  /\ UNCHANGED <<live, now, calls, activeTime, canvasVars, sessionVars, appVars,
                 storageVars, session_date, session_duration>>

\* the recommendations of a PracticeSession: statuses set, half minutes passing
NextAdvice ==
  \/ \E c \in AllItems, status \in Statuses : setCharacterStatus(c, status, NoNote)
  \/ (live = "session" /\ Tick(MsPerMinute \div 2, MaxAdviceNow))
  \/ getRecommendations

SpecAdvice == InitSession /\ [][NextAdvice]_vars

\* the progress of a PracticeSession: statuses set, progress read, disposal
NextProgress ==
  \/ \E c \in AllItems, status \in Statuses : setCharacterStatus(c, status, NoNote)
  \/ nextCharacter
  \/ getProgress
  \/ destroy

SpecProgress == InitSession /\ [][NextProgress]_vars

\* the calls made on a PracticeStorage, each write taken or rejected
NextStore ==
  \/ \E session \in SessionInputs, accepted \in BOOLEAN : saveSession(session, accepted)
  \/ \E importedData \in ImportInputs, accepted \in BOOLEAN :
       importData(importedData, accepted)
  \/ \E sessionId \in {-1, 1}, accepted \in BOOLEAN : deleteSession(sessionId, accepted)
  \/ \E accepted \in BOOLEAN : clearData(accepted)
  \/ \E accepted \in BOOLEAN : saveSettings(DefaultBrushSize + 4, accepted)
  \/ (live = "storage" /\ Tick(1, MaxStoreNow))

SpecStore == InitStore /\ [][NextStore]_vars

\* saving with a store that may be unavailable or reject a write: the calls on a
\* PracticeStorage, or the app with its autosave
NextSave ==
  \/ \E session \in SessionInputs, accepted \in BOOLEAN : saveSession(session, accepted)
  \/ \E accepted \in BOOLEAN : saveSettings(DefaultBrushSize + 4, accepted)
  \/ \E accepted \in BOOLEAN : clearData(accepted)
  \/ \E status \in Statuses, accepted \in BOOLEAN : app_setCharacterStatus(status, accepted)
  \/ app_nextCharacter(MaxAppHistory)

SpecSave == (InitStore \/ InitApp) /\ [][NextSave]_vars

\* the app started with any chars parameter, then moving between the items
NextParse ==
  \/ app_init
  \/ (lastOp # "constructed" /\ \E index \in Indexes : loadCharacter(index, MaxAppHistory))
  \/ (lastOp # "constructed" /\ app_previousCharacter(MaxAppHistory))
  \/ (lastOp # "constructed" /\ app_nextCharacter(MaxAppHistory))

SpecParse == InitConstructed /\ [][NextParse]_vars

\* statuses set on the items of a PracticeSession and on an identifier that is
\* none of them, with and without feedback, while it runs and once it is disposed
NextReject ==
  \/ \E index \in 0..2 : startCharacterPractice(index)
  \/ \E c \in AllItems \cup {Stranger}, status \in Statuses, note \in {NoNote, "good"} :
        setCharacterStatus(c, status, note)
  \/ destroy

SpecReject == InitSession /\ [][NextReject]_vars

\* a PracticeSession on its own
SpecSession == InitSession /\ [][NextSession]_vars

\* the app with its canvas and its store
SpecApp == InitApp /\ [][NextApp]_vars

\* a PracticeSession, or the app with its canvas
SpecPractice == (InitSession \/ InitApp) /\ [][NextSession \/ NextApp]_vars

\* ------------------------------------------------------------------ claims
\* a step that pushed a snapshot: a committed stroke or a clear
PushStep == lastOp' \in {"stroke", "clear"} /\ vars' # vars

\* C1: the history never holds more than 50 snapshots; every push leaves the
\* last 50 of (entries up to the cursor, then the new snapshot) with the cursor
\* on the snapshot just pushed; and while only pushes have run, the history is
\* the 50 most recent pushes in order (60 pushes: length 50, cursor on the 50th)
C1_HistoryCap ==
  /\ [](Len(history) <= 50)
  /\ [][PushStep =>
          /\ history' = LastN(Append(SubSeq(history, 1, historyIndex + 1),
                                     ToJSON(canvas')), 50)
          /\ historyIndex' = Len(history') - 1
          /\ (Len(history) = 50 /\ historyIndex = 49 =>
                /\ history' = Append(Tail(history), ToJSON(canvas'))
                /\ historyIndex' = 49)]_vars
  /\ [](pushLog # <<>> =>
          /\ history = LastN(pushLog, 50)
          /\ historyIndex = Len(history) - 1)

\* C1 witness: the initial snapshot and 60 pushes in a row, the oldest 11 evicted
C1_Witness ==
  /\ Len(pushLog) = 61
  /\ Len(history) = 50
  /\ historyIndex = 49
  /\ history[1] = ToJSON(11)

\* C2: a redo right after an undo that moved the cursor puts the cursor back on
\* its index before the undo, restores the snapshot shown before the undo and
\* leaves the history as it was
C2_UndoRedo ==
  [][(lastOp = "undo" /\ lastOp' \in {"redo", "redoNoop"}) =>
       /\ historyIndex' = preUndo.historyIndex
       /\ canvas' = preUndo.canvas
       /\ canvas' = LoadFromJSON(preUndo.history[preUndo.historyIndex + 1])
       /\ history' = preUndo.history]_vars

\* C2 witness: after a push, an undo from above index 0 and then a redo have run,
\* and the undo had changed what the canvas shows
C2_Witness ==
  /\ lastOp = "redo"
  /\ preUndo # NoState
  /\ preUndo.historyIndex > 0
  /\ preUndo.history[preUndo.historyIndex] # preUndo.history[preUndo.historyIndex + 1]

\* C3: a push with the cursor at i keeps entries 0..i, drops the rest, appends
\* the new snapshot and puts the cursor on it; a redo right after a push changes
\* nothing
C3_PushTruncates ==
  /\ [][PushStep =>
          /\ Len(history') = historyIndex + 2
          /\ \A k \in 1..(historyIndex + 1) : history'[k] = history[k]
          /\ history'[Len(history')] = ToJSON(canvas')
          /\ historyIndex' = Len(history') - 1]_vars
  /\ [][(lastOp \in {"stroke", "clear"} /\ lastOp' \in {"redo", "redoNoop"}) =>
          UNCHANGED <<history, historyIndex, canvas>>]_vars

\* C3 witness: a push has just discarded entries that lay after the cursor
C3_Witness ==
  /\ lastOp \in {"stroke", "clear"}
  /\ cutFuture
  /\ historyIndex = Len(history) - 1

\* C4: undo at index 0 and redo at the last index change neither cursor, history
\* nor canvas; otherwise undo moves the cursor down by one, redo up by one, and
\* the canvas shows the snapshot at the new cursor
C4_UndoRedoSteps ==
  /\ [][lastOp' \in {"undo", "undoNoop"} /\ vars' # vars =>
          /\ history' = history
          /\ IF historyIndex = 0
               THEN historyIndex' = historyIndex /\ canvas' = canvas
               ELSE /\ historyIndex' = historyIndex - 1
                    /\ canvas' = LoadFromJSON(history[historyIndex' + 1])]_vars
  /\ [][lastOp' \in {"redo", "redoNoop"} /\ vars' # vars =>
          /\ history' = history
          /\ IF historyIndex = Len(history) - 1
               THEN historyIndex' = historyIndex /\ canvas' = canvas
               ELSE /\ historyIndex' = historyIndex + 1
                    /\ canvas' = LoadFromJSON(history[historyIndex' + 1])]_vars

\* C4 witness: undo was called with the cursor at index 0 of a history that
\* holds entries to redo
C4_Witness ==
  /\ lastOp = "undoNoop"
  /\ historyIndex = 0
  /\ Len(history) > 1

\* the attempts counter of item c in the object under test
Attempts(c) ==
  IF live = "session" THEN results[c].attempts ELSE app_results[c].attempts

\* the items of the object under test
LiveItems ==
  IF live = "session" THEN DOMAIN results
  ELSE IF live = "app" THEN DOMAIN app_results
  ELSE {}

\* C5: an item's attempts counter equals the number of setCharacterStatus calls
\* made on it, whatever the statuses were, and never decreases
C5_AttemptsCountCalls ==
  /\ [](\A c \in LiveItems : Attempts(c) = calls[c])
  /\ [][\A c \in LiveItems : Attempts(c)' >= Attempts(c)]_vars

\* C5 witness: two calls on one item of a session, the last one setting
\* 'not-practiced'
C5_Witness ==
  /\ live = "session"
  /\ lastOp = "setCharacterStatus"
  /\ \E c \in DOMAIN results :
       /\ calls[c] = 2
       /\ results[c].attempts = 2
       /\ results[c].status = "not-practiced"

\* C6: startCharacterPractice / goToCharacter with an index outside [0, length)
\* returns false and leaves currentIndex, every record and the clock unchanged;
\* the app's loadCharacter with such an index leaves the app's currentIndex and
\* the canvas history unchanged
C6_OutOfRangeIgnored ==
  /\ [][\A index \in Indexes :
          ((index < 0 \/ index >= Len(characters)) /\ startCharacterPractice(index)) =>
            /\ lastRet' = "false"
            /\ UNCHANGED <<currentIndex, results, characterStartTime>>]_vars
  /\ [][\A index \in Indexes :
          ((index < 0 \/ index >= Len(app_characters))
             /\ loadCharacter(index, MaxAppHistory)) =>
            UNCHANGED <<app_currentIndex, app_results, history, historyIndex, canvas>>]_vars

\* C6 witness: an index was refused while the clock of a visited item was running
C6_Witness ==
  /\ live = "session"
  /\ lastOp = "startCharacterPractice"
  /\ lastRet = "false"
  /\ characterStartTime # 0
  /\ currentIndex > 0

C8_CompletedTerminal ==
  [][completed =>
       /\ results' = results
       /\ currentIndex' = currentIndex
       /\ characterStartTime' = characterStartTime
       /\ ~isActive']_vars

\* C9: nextCharacter() at the last index keeps the index, completes the session
\* (inactive, clock stopped) and returns false, at an earlier index it moves the
\* index up by one; previousCharacter() moves it down by one, or returns false
\* and changes nothing at index 0
C9_NextPrevious ==
  /\ [][lastOp' = "nextCharacter" /\ vars' # vars =>
          IF currentIndex = Len(characters) - 1
            THEN /\ currentIndex' = currentIndex
                 /\ ~isActive'
                 /\ characterStartTime' = 0
                 /\ completed'
                 /\ lastRet' = "false"
            ELSE /\ currentIndex' = currentIndex + 1
                 /\ lastRet' = "true"]_vars
  /\ [][lastOp' = "previousCharacter" /\ vars' # vars =>
          IF currentIndex = 0
            THEN /\ lastRet' = "false"
                 /\ UNCHANGED sessionVars
            ELSE /\ currentIndex' = currentIndex - 1
                 /\ lastRet' = "true"]_vars

\* C9 witness: nextCharacter() at the last index of an active session completed it
C9_Witness ==
  /\ lastOp = "nextCharacter"
  /\ lastRet = "false"
  /\ completed
  /\ ~isActive
  /\ currentIndex = Len(characters) - 1
  /\ currentIndex > 0

\* C10: the buckets of generateResults, analyzeResults and getCharacterAnalysis
\* hold every item in exactly one bucket and their sizes add up to the reported
\* item count (for getCharacterAnalysis, which reports none, the record count)
C10_BucketsPartition ==
  LET Holds(bucket, c) == \E i \in 1..Len(bucket) : bucket[i] = c
      Partitions(b, chars, total) ==
        /\ \A c \in ItemsOf(chars) :
             Cardinality({k \in {"mastered", "needsWork", "notPracticed"} :
                            Holds(b[k], c)}) = 1
        /\ Len(b.mastered) + Len(b.needsWork) + Len(b.notPracticed) = total
  IN /\ live = "app" =>
          /\ Partitions(GenerateResults(app_results, app_characters), app_characters,
                        GenerateResults(app_results, app_characters).totalCharacters)
          /\ Partitions(AnalyzeResults(app_results, app_characters), app_characters,
                        AnalyzeResults(app_results, app_characters).total)
     /\ live = "session" =>
          Partitions(GetCharacterAnalysis(Sess), characters, Cardinality(DOMAIN results))

C12_Attempts ==
  LET res == app_results
      chars == app_characters
      entry(i) == IF i <= Len(chars) THEN res[chars[i]].attempts ELSE 0
      record(c) == IF c \in DOMAIN res THEN res[c].attempts ELSE 0
      listPracticed ==
        Cardinality({i \in 1..Len(chars) : res[chars[i]].status # "not-practiced"})
      mapPracticed == Cardinality({c \in DOMAIN res : res[c].status # "not-practiced"})
      IsAverage(r, total, count) ==
        /\ r \in Nat
        /\ count = 0 => r = 0
        /\ count > 0 => /\ 2 * count * r <= 2 * total + count
                        /\ 2 * total + count < 2 * count * (r + 1)
  IN /\ lastOp = "analyzeResults" =>
          /\ exported.totalAttempts = entry(1) + entry(2) + entry(3)
          /\ exported.practiced = listPracticed
          /\ IsAverage(exported.averageAttempts, exported.totalAttempts, listPracticed)
          /\ listPracticed = 0 => exported.successRate = 0
     /\ lastOp = "getSessionStats" =>
          /\ exported.totalAttempts = record("A") + record("B") + record("C")
          /\ exported.practiced = mapPracticed
          /\ IsAverage(exported.averageAttempts, exported.totalAttempts, mapPracticed)

\* C12 witness: three attempts over two practiced items average to 2
C12_Witness ==
  /\ lastOp = "analyzeResults"
  /\ exported.practiced = 2
  /\ exported.totalAttempts = 3
  /\ exported.averageAttempts = 2

\* C13: two generateResults calls, or two generateCSV calls, on the same session
\* state and item list return the same text whenever they are made
C13_Deterministic ==
  [][/\ (lastOp = "generateResults" /\ lastOp' = "generateResults") =>
          exported' = exported
     /\ (lastOp = "generateCSV" /\ lastOp' = "generateCSV") =>
          exported' = exported]_vars

\* C14: two generateJSON calls on the same session state and item list differ in
\* no field other than metadata.exportedAt
C14_OnlyExportedAt ==
  [][(lastOp = "generateJSON" /\ lastOp' = "generateJSON") =>
        [exported' EXCEPT !.metadata.exportedAt = 0] =
          [exported EXCEPT !.metadata.exportedAt = 0]]_vars

\* C15: once pauseSession(), completeSession() or destroy() has returned, no
\* time-tracker interval created by the session is still scheduled
C15_NoTimerLeft ==
  lastOp \in {"pauseSession", "completeSession", "destroy"} => liveTimers = 0

\* C16: ending time-tracking for an item leaves in its timeSpent the sum of the
\* durations during which it was the active item of an unpaused session: every
\* item whose clock is not running right now has exactly that sum as timeSpent
C16_TimeSpentIsActiveTime ==
  \A c \in DOMAIN results :
    (characterStartTime = 0 \/ c # characters[currentIndex + 1]) =>
      results[c].timeSpent = activeTime[c]

\* C17: a startTime that is set never changes; a successful selection stamps the
\* selected item's startTime with the current instant when it was not set, and
\* nothing else writes a startTime
C17_StartTimeOnce ==
  /\ [][\A c \in DOMAIN results :
          /\ results[c].startTime # 0 => results'[c].startTime = results[c].startTime
          /\ results'[c].startTime # results[c].startTime =>
               /\ lastOp' = "startCharacterPractice"
               /\ lastRet' = "true"
               /\ c = characters[currentIndex' + 1]
               /\ results'[c].startTime = now]_vars
  /\ [][((\E index \in 0..2 : startCharacterPractice(index)) /\ lastRet' = "true") =>
          results'[characters[currentIndex' + 1]].startTime # 0]_vars

\* C17 witness: an item stamped at an earlier instant has just been selected again
C17_Witness ==
  /\ lastOp = "startCharacterPractice"
  /\ lastRet = "true"
  /\ characterStartTime = now
  /\ results[characters[currentIndex + 1]].startTime # 0
  /\ results[characters[currentIndex + 1]].startTime < now
  /\ results[characters[currentIndex + 1]].timeSpent > 0

\* C18: setCharacterStatus on an item of the session sets the status and counts
\* the attempt; with autoProgress and status 'mastered' it then advances once
\* (currentIndex + 1, or completion at the last index); otherwise currentIndex
\* and the active / completed state are unchanged
C18_AutoAdvance ==
  [][\A c \in AllItems, status \in Statuses :
       (c \in DOMAIN results /\ setCharacterStatus(c, status, NoNote)) =>
         /\ lastRet' = "true"
         /\ results'[c].status = status
         /\ results'[c].attempts = results[c].attempts + 1
         /\ IF autoProgress /\ status = "mastered"
              THEN IF currentIndex < Len(characters) - 1
                     THEN /\ currentIndex' = currentIndex + 1
                          /\ isActive' = isActive
                          /\ completed' = completed
                     ELSE /\ currentIndex' = currentIndex
                          /\ ~isActive'
                          /\ completed'
              ELSE UNCHANGED <<currentIndex, isActive, completed>>]_vars

\* C18 witness: with autoProgress, marking the first item mastered moved the
\* session on to the second item
C18_Witness ==
  /\ live = "session"
  /\ autoProgress
  /\ lastOp = "setCharacterStatus"
  /\ lastRet = "true"
  /\ characters = <<"A", "B", "C">>
  /\ results["A"].status = "mastered"
  /\ results["A"].attempts = 1
  /\ results["B"].startTime # 0
  /\ currentIndex = 1
  /\ ~completed

\* C19: addStroke never fails; for every input it appends exactly one entry to
\* the end of the current item's stroke log, leaves the earlier entries and every
\* other item's log unchanged, and changes no status, attempts or index
C19_AddStrokeAppends ==
  [][\A strokeData \in StrokeInputs :
       addStroke(strokeData) =>
         /\ lastRet' # "throws"
         /\ DOMAIN results' = DOMAIN results
         /\ characters[currentIndex + 1] \in DOMAIN results
         /\ currentIndex' = currentIndex
         /\ \A c \in DOMAIN results :
              /\ results'[c].status = results[c].status
              /\ results'[c].attempts = results[c].attempts
              /\ IF c = characters[currentIndex + 1]
                   THEN /\ Len(results'[c].strokes) = Len(results[c].strokes) + 1
                        /\ SubSeq(results'[c].strokes, 1, Len(results[c].strokes)) =
                             results[c].strokes
                   ELSE results'[c].strokes = results[c].strokes]_vars

\* C20: getProgress() returns the item count as total, the number of records
\* whose status is not 'not-practiced' as practiced, the number of 'mastered'
\* records as mastered, remaining = total - practiced, with
\* mastered <= practiced <= total and both percentages the rounded ratios in
\* [0, 100], 0 on a zero denominator; the call changes nothing in the session
C20_Progress ==
  /\ [](lastOp = "getProgress" =>
          LET g == exported
              p == Cardinality({c \in DOMAIN results : results[c].status # "not-practiced"})
              m == Cardinality({c \in DOMAIN results : results[c].status = "mastered"})
              IsPercent(r, a, b) ==
                /\ r \in 0..100
                /\ b = 0 => r = 0
                /\ b > 0 => /\ 2 * b * r <= 200 * a + b
                            /\ 200 * a + b < 2 * b * (r + 1)
          IN /\ g.total = Len(characters)
             /\ g.practiced = p
             /\ g.mastered = m
             /\ g.remaining = g.total - g.practiced
             /\ g.mastered <= g.practiced
             /\ g.practiced <= g.total
             /\ IsPercent(g.percentagePracticed, p, g.total)
             /\ IsPercent(g.percentagemastered, m, p))
  /\ [][lastOp' = "getProgress" => UNCHANGED <<sessionVars, calls, activeTime, now>>]_vars

\* C20 witness: progress was read with two of three items practiced, one mastered
C20_Witness ==
  /\ lastOp = "getProgress"
  /\ exported.total = 3
  /\ exported.practiced = 2
  /\ exported.mastered = 1
  /\ exported.remaining = 1
  /\ exported.percentagePracticed = 67
  /\ exported.percentagemastered = 50

\* C21: getRecommendations() returns exactly the recommendations whose rule holds,
\* in the order completion (high, some record not practiced), review (medium,
\* some record needs work), pace (low, average time per practiced item over
\* 120 s or under 30 s), then success (positive, rate at least 80) or
\* improvement (medium, rate under 50); the list is a function of the records
\* and the clock, and the call changes nothing in the session
C21_Recommendations ==
  [][(lastOp' = "getRecommendations" /\ now' = now) =>
       /\ UNCHANGED <<sessionVars, calls, activeTime>>
       /\ LET g == exported'
              np == {c \in DOMAIN results : results[c].status = "not-practiced"}
              nw == {c \in DOMAIN results : results[c].status = "needs-work"}
              p == Cardinality({c \in DOMAIN results : results[c].status # "not-practiced"})
              m == Cardinality({c \in DOMAIN results : results[c].status = "mastered"})
              d == now - 1
              Rank(ty) == CASE ty = "completion" -> 1
                            [] ty = "review" -> 2
                            [] ty = "pace" -> 3
                            [] ty \in {"success", "improvement"} -> 4
              Has(ty, pr) == \E i \in 1..Len(g) : g[i].type = ty /\ g[i].priority = pr
              Listed(ty) == UNION {{g[i].characters[k] : k \in 1..Len(g[i].characters)} :
                                     i \in {j \in 1..Len(g) : g[j].type = ty}}
              Slow == p > 0 /\ 2 * d >= 241 * p * MsPerSecond
              Fast == p = 0 \/ 2 * d < 59 * p * MsPerSecond
          IN /\ \A i, j \in 1..Len(g) : i < j => Rank(g[i].type) < Rank(g[j].type)
             /\ \A i \in 1..Len(g) :
                  g[i].type \in {"completion", "review", "pace", "success", "improvement"}
             /\ Has("completion", "high") <=> np # {}
             /\ Listed("completion") = np
             /\ Has("review", "medium") <=> nw # {}
             /\ Listed("review") = nw
             /\ Has("pace", "low") <=> (Slow \/ Fast)
             /\ \A i \in 1..Len(g) :
                  g[i].type = "pace" =>
                    g[i].message = IF Slow THEN "faster pace" ELSE "more time"
             /\ Has("success", "positive") <=> (p > 0 /\ 200 * m >= 159 * p)
             /\ Has("improvement", "medium") <=> (p = 0 \/ 200 * m < 99 * p)
             /\ \A i \in 1..Len(g) :
                  \/ Has(g[i].type, "high") /\ g[i].type = "completion"
                  \/ Has(g[i].type, "medium") /\ g[i].type \in {"review", "improvement"}
                  \/ Has(g[i].type, "low") /\ g[i].type = "pace"
                  \/ Has(g[i].type, "positive") /\ g[i].type = "success"]_vars

\* C21 witness: all four rule groups fired at once: one item left, one needing
\* work, none mastered, over two minutes per practiced item
C21_Witness ==
  /\ lastOp = "getRecommendations"
  /\ Len(exported) = 4
  /\ exported[1].type = "completion"
  /\ exported[2].type = "review"
  /\ exported[3].type = "pace"
  /\ exported[3].message = "faster pace"
  /\ exported[4].type = "improvement"
  /\ now = MaxAdviceNow

\* C22: saveSession is an upsert keyed by session id: once the app's session has
\* been saved, by the autosave of setCharacterStatus, any number of times, the
\* store holds exactly one entry for it
C22_OneEntryPerSession ==
  (live = "app" /\ available /\ TotalCalls >= 1) => Len(sessions) = 1

\* C23: the stored session list never holds more than 50 entries
C23_SessionCap == Len(sessions) <= SessionCap

\* C24: a saveSession that succeeds evicts only oldest entries: no entry dropped
\* from the list was saved later than an entry that stays, and the entry just
\* saved stays
C24_EvictsOldest ==
  [][(lastOp' = "saveSession" /\ lastRet' = "true" /\ now' = now) =>
       LET kept == IdsOf(sessions')
           evicted == {i \in 1..Len(sessions) : sessions[i].id \notin kept}
       IN /\ \A i \in evicted, k \in 1..Len(sessions') :
               sessions[i].savedAt <= sessions'[k].savedAt
          /\ \E k \in 1..Len(sessions') : sessions'[k].savedAt = now]_vars

\* C25: a persistence failure is not fatal: with the store unavailable or the
\* write rejected, saveSession and saveSettings return false, throw nothing and
\* leave the store as it was (a write that is taken returns true); the app's
\* setCharacterStatus still applies the status and counts the attempt
C25_FailureNotFatal ==
  /\ [](lastRet # "throws")
  /\ [][\A session \in SessionInputs, accepted \in BOOLEAN :
          saveSession(session, accepted) =>
            /\ lastRet' = IF available /\ stored /\ accepted THEN "true" ELSE "false"
            /\ lastRet' = "false" => UNCHANGED storageVars]_vars
  /\ [][\A accepted \in BOOLEAN :
          saveSettings(DefaultBrushSize + 4, accepted) =>
            /\ lastRet' = IF available /\ stored /\ accepted THEN "true" ELSE "false"
            /\ lastRet' = "false" => UNCHANGED storageVars]_vars
  /\ [][\A status \in Statuses, accepted \in BOOLEAN :
          app_setCharacterStatus(status, accepted) =>
            LET char == app_characters[app_currentIndex + 1]
            IN /\ app_results'[char].status = status
               /\ app_results'[char].attempts = app_results[char].attempts + 1
               /\ UNCHANGED <<app_characters, app_currentIndex>>
               /\ (~available \/ ~accepted) => UNCHANGED storageVars]_vars

\* C25 witness: the app has applied two statuses while the store, though
\* available, has taken only one of the two writes
C25_Witness ==
  /\ live = "app"
  /\ lastOp = "app.setCharacterStatus"
  /\ available
  /\ TotalCalls = 2
  /\ Len(sessions) = 1
  /\ \E c \in DOMAIN app_results :
       app_results[c].status = "mastered" /\ app_results[c].attempts = 2

\* C26: when the snapshot undo() or redo() restores cannot be read, the call
\* fails safely: no exception escapes, the error is caught and logged, and the
\* canvas keeps the content it had
C26_RestoreFailsSafe ==
  /\ [](lastRet # "throws")
  /\ [][(undo /\ historyIndex > 0 /\ ~Readable(history[historyIndex])) =>
          lastRet' = "caught" /\ canvas' = canvas]_vars
  /\ [][(redo /\ historyIndex < Len(history) - 1
               /\ ~Readable(history[historyIndex + 2])) =>
          lastRet' = "caught" /\ canvas' = canvas]_vars

\* C26 witness: an undo met an unreadable snapshot with two paths on the canvas,
\* which are still there
C26_Witness ==
  /\ lastOp = "undo"
  /\ lastRet = "caught"
  /\ canvas = 2
  /\ history[historyIndex + 1] = Unreadable

\* C27: after init() the item list is never empty and no item is empty or blank;
\* it holds the pieces of the supplied list between commas and pipes, trimmed,
\* without the empty ones, or the default items when nothing is left, and every
\* item has a record with status 'not-practiced' and attempts 0
C27_ItemListAfterInit ==
  /\ []((live = "app" /\ lastOp # "constructed") =>
          /\ app_characters # <<>>
          /\ \A i \in 1..Len(app_characters) :
               \E k \in 1..Len(app_characters[i]) : app_characters[i][k] # " "
          /\ DOMAIN app_results = {app_characters[i] : i \in 1..Len(app_characters)})
  /\ [][lastOp' = "app.init" =>
            LET given == IF search.chars # <<>> THEN search.chars ELSE search.characters
                items == app_characters'
                Letters(text) == SelectSeq(text, LAMBDA x : x \notin Separators \cup {" "})
                Joined == [n \in 0..Len(items) |->
                             IF n = 0 THEN <<>>
                             ELSE Letters(items[1]) \o
                                  (IF n > 1 THEN Letters(items[2]) ELSE <<>>) \o
                                  (IF n > 2 THEN Letters(items[3]) ELSE <<>>) \o
                                  (IF n > 3 THEN Letters(items[4]) ELSE <<>>) \o
                                  (IF n > 4 THEN Letters(items[5]) ELSE <<>>)]
            IN /\ IF Letters(given) = <<>>
                    THEN items = DefaultCharacters
                    ELSE /\ Len(items) <= 5
                         /\ Joined[Len(items)] = Letters(given)
                         /\ Len(items) <=
                              1 + Cardinality({k \in 1..Len(given) : given[k] \in Separators})
                         /\ \A i \in 1..Len(items) :
                              /\ items[i] # <<>>
                              /\ Head(items[i]) # " "
                              /\ items[i][Len(items[i])] # " "
                              /\ \A k \in 1..Len(items[i]) : items[i][k] \notin Separators
               /\ \A c \in DOMAIN app_results' :
                    app_results'[c].status = "not-practiced" /\ app_results'[c].attempts = 0
               /\ app_currentIndex' = 0]_vars

\* C27 witness: the app was started with a list that gave the items A B and A,
\* the first with a blank inside
C27_Witness ==
  /\ lastOp = "app.init"
  /\ app_characters = <<(<<"A", " ", "B">>), (<<"A">>)>> \/ app_characters = <<(<<"A">>), (<<"B">>)>>
  /\ app_results[<<"A">>].status = "not-practiced"
  /\ app_results[<<"A">>].attempts = 0

\* C28: setCharacterStatus with an identifier that is no item of the session
\* returns false, does not throw, and leaves every record, currentIndex and the
\* rest of the session state as they were
C28_StrangerRejected ==
  [][\A status \in Statuses, note \in {NoNote, "good"} :
       setCharacterStatus(Stranger, status, note) =>
         /\ lastRet' = "false"
         /\ results' = results
         /\ currentIndex' = currentIndex
         /\ UNCHANGED <<characters, autoProgress, isActive, characterStartTime,
                        liveTimers, handleLive, completed>>]_vars

\* C28 witness: a status for the unknown identifier was refused in a running
\* session that already holds an attempt on item A
C28_Witness ==
  /\ lastOp = "setCharacterStatus"
  /\ lastRet = "false"
  /\ isActive
  /\ "A" \in DOMAIN results
  /\ results["A"].attempts = 1
  /\ calls["A"] = 1

\* C29: generateCSV gives the fixed header and then one row per entry of the
\* item list, in the order of the list, each with the item, its status and its
\* attempts as recorded, or 'not-practiced' and 0 for an item without a record
C29_CsvRows ==
  lastOp = "generateCSV" =>
    /\ Len(exported) = 1 + Len(app_characters)
    /\ exported[1] = <<"Character", "Pinyin", "Meaning", "Status", "Attempts", "Duration">>
    /\ \A i \in 1..Len(app_characters) :
         LET char == app_characters[i]
             row == exported[i + 1]
         IN /\ Len(row) = 6
            /\ row[1] = char
            /\ char \in DOMAIN app_results =>
                 row[4] = app_results[char].status /\ row[5] = app_results[char].attempts
            /\ char \notin DOMAIN app_results =>
                 row[4] = "not-practiced" /\ row[5] = 0

\* C29 witness: the list A A B was exported with A mastered in two attempts and
\* no record for B
C29_Witness ==
  /\ lastOp = "generateCSV"
  /\ app_characters = <<"A", "A", "B">>
  /\ DOMAIN app_results = {"A"}
  /\ app_results["A"].status = "mastered"
  /\ app_results["A"].attempts = 2
  /\ Len(exported) = 4

\* C30: init() leaves exactly one snapshot, that of the empty canvas, with the
\* cursor on it; from then on, under strokes, clear, undo and redo, the history
\* is never empty and the cursor names one of its entries
C30_CursorInHistory ==
  /\ [][(lastOp = "constructed" /\ lastOp' = "init") =>
          /\ Len(history') = 1
          /\ LoadFromJSON(history'[1]) = BlankCanvas
          /\ historyIndex' = 0]_vars
  /\ [](lastOp # "constructed" =>
          /\ Len(history) >= 1
          /\ 0 <= historyIndex
          /\ historyIndex <= Len(history) - 1)

\* C30 witness: on a full history of 50 snapshots the cursor was taken back to
\* the first entry and a further undo did nothing
C30_Witness ==
  /\ live = "canvas"
  /\ lastOp = "undoNoop"
  /\ Len(history) = 50
  /\ historyIndex = 0

\* C31: the canvas shows the snapshot at the cursor after every event: a stroke
\* and a clear push the resulting content, and an undo or redo that moves the
\* cursor applies the snapshot at the new cursor, also when the restore fails
C31_CanvasShowsCursor ==
  /\ [][lastOp' \in {"stroke", "clear"} =>
          history'[historyIndex' + 1] = ToJSON(canvas')]_vars
  /\ [][(lastOp' \in {"undo", "redo"} /\ historyIndex' # historyIndex) =>
          history'[historyIndex' + 1] = ToJSON(canvas')]_vars

\* the step is a clear() of the canvas, made directly or by loading an item
ClearStep ==
  \/ lastOp' = "clear"
  \/ /\ lastOp' \in {"loadCharacter", "app.nextCharacter", "app.previousCharacter"}
     /\ historyIndex' # historyIndex

\* C32: a clear, made directly or by the app loading an item, is one more history
\* entry: the entries up to the cursor stay, the drawing that was on the canvas
\* is the entry before the new one, and an undo right after it puts that
\* drawing, made for the previous item, back on the canvas
C32_ClearIsUndoable ==
  /\ [][(live = "app" /\ ClearStep) =>
          /\ canvas' = BlankCanvas
          /\ historyIndex' = historyIndex + 1
          /\ Len(history') = historyIndex' + 1
          /\ SubSeq(history', 1, historyIndex') = SubSeq(history, 1, historyIndex + 1)
          /\ LoadFromJSON(history'[historyIndex']) = canvas
          /\ LoadFromJSON(history'[historyIndex' + 1]) = BlankCanvas]_vars
  /\ [][(live = "app" /\ lastOp' \in {"undo", "undoNoop"}
          /\ lastOp \in {"clear", "loadCharacter", "app.nextCharacter",
                         "app.previousCharacter"}
          /\ historyIndex > 0) =>
          /\ lastOp' = "undo"
          /\ canvas' = LoadFromJSON(history[historyIndex])
          /\ historyIndex' = historyIndex - 1
          /\ history' = history
          /\ UNCHANGED appVars]_vars

\* C32 witness: a stroke was drawn for the first item, the app moved to the
\* second item, and the undo that followed shows the stroke again
C32_Witness ==
  /\ live = "app"
  /\ lastOp = "undo"
  /\ app_currentIndex = 1
  /\ preUndo.canvas = BlankCanvas
  /\ preUndo.historyIndex = 2
  /\ preUndo.history[3] = ToJSON(BlankCanvas)
  /\ preUndo.history[2] = ToJSON(1)
  /\ canvas = 1

\* C33: no step of a PracticeSession (a tick of the time tracker, selecting an
\* item, pausing, resuming, completing) lowers the timeSpent of any item
C33_TimeSpentMonotone ==
  [][\A c \in DOMAIN results \cap DOMAIN results' :
       results'[c].timeSpent >= results[c].timeSpent]_vars

\* C34: a PracticeSession never has more than one time-tracker interval
\* scheduled, whatever the order and number of pauseSession, resumeSession and
\* completeSession calls after its construction
C34_OneTracker == live = "session" => liveTimers <= 1

\* C35: while the session is paused or completed (isActive is false) no clock
\* runs, that is characterStartTime is null, also after navigation made while
\* paused; and a running clock belongs to one item, the current one
C35_NoClockWhileInactive ==
  live = "session" =>
    /\ ~isActive => characterStartTime = 0
    /\ characterStartTime # 0 => currentIndex \in 0..(Len(characters) - 1)

\* C36: exportSession() reports completed = true only for a session on which
\* completeSession has run, and completed = false for one that is only paused
C36_CompletedOnlyWhenCompleted ==
  (live = "session" /\ lastOp = "exportSession") => (exported.completed <=> completed)

\* C37: setCharacterStatus(item, status, note) leaves the status, attempts,
\* strokes and feedback of every other item as they were; the item's own
\* feedback gains one entry, at the end, when a note is given and is unchanged
\* otherwise, its earlier entries staying in place, and its strokes are unchanged
C37_OnlyThatRecord ==
  [][\A c \in AllItems, status \in Statuses, note \in {NoNote, "good"} :
       (c \in DOMAIN results /\ setCharacterStatus(c, status, note)) =>
         /\ DOMAIN results' = DOMAIN results
         /\ \A d \in DOMAIN results \ {c} :
              /\ results'[d].status = results[d].status
              /\ results'[d].attempts = results[d].attempts
              /\ results'[d].strokes = results[d].strokes
              /\ results'[d].feedback = results[d].feedback
         /\ results'[c].strokes = results[c].strokes
         /\ LET old == results[c].feedback
                new == results'[c].feedback
            IN IF note = NoNote
                 THEN new = old
                 ELSE /\ Len(new) = Len(old) + 1
                      /\ \A i \in 1..Len(old) : new[i] = old[i]
                      /\ new[Len(new)].feedback = note
                      /\ new[Len(new)].status = status]_vars

\* C37 witness: item B got a second note after a first one, while item A holds
\* a stroke and an earlier status
C37_Witness ==
  /\ live = "session"
  /\ lastOp = "setCharacterStatus"
  /\ "B" \in DOMAIN results
  /\ Len(results["B"].feedback) = 2
  /\ results["B"].feedback[1].status = "mastered"
  /\ results["B"].feedback[2].status = "needs-work"
  /\ Len(results["A"].strokes) = 1

\* C38: the statistics count a session once: a saveSession that stores a
\* session for the first time adds one to totalSessions, and saving again a
\* session that is already stored leaves totalSessions as it was
C38_CountedOnce ==
  [][(live = "storage" /\ lastOp' = "saveSession" /\ lastRet' = "true") =>
       totalSessions' = totalSessions +
                          (IF IdsOf(sessions') = IdsOf(sessions) THEN 0 ELSE 1)]_vars

====
